---- MODULE Spec2Model ----
(***************************************************************************)
(* Persistent collections of lihs-ie/object-based-collections:             *)
(* Hasher, the HAMT nodes behind ImmutableMap / ImmutableSet, the map and  *)
(* set facades, Optional and the two-stack Queue.                          *)
(*                                                                         *)
(* JavaScript values are records [t, num, str]; a JavaScript number is a   *)
(* record [nan, hi, lo, fr] standing for hi * 2^16 + lo + fr / 2 with      *)
(* lo in 0..65535, so that every 32-bit pattern, negative numbers,         *)
(* numbers >= 2^32, halves and NaN have a representation.                  *)
(***************************************************************************)
EXTENDS Integers, Sequences, FiniteSets, TLC

VARIABLES
  map,      \* root of the ImmutableMap the program holds
  set,      \* root of the ImmutableSet the program holds
  before,   \* root of the last call's receiver, as it was before the call
  old,      \* root of the last call's receiver, after the call
  ref,      \* reference finite map: what the calls so far should have left
  sref,     \* reference set of keys
  used,     \* keys passed to the calls so far
  lastOp,   \* the last call
  queue,    \* QueueData of the Queue the program holds
  qref,     \* reference queue: the elements added and not yet removed, oldest first
  qres,     \* the last Queue call, what it returned and what a FIFO queue returns
  hashInput,  \* value handed to Hasher.hash
  hashOutput,  \* what Hasher.hash returned for it
  shared,  \* root of the map handle that the two writers and the reader share
  original,  \* root of the shared map when it was built
  writers,  \* per writer: the call it made on the shared handle and the root returned to it
  seen,  \* what the reader saw the last time it traversed a root
  stack,  \* head node of the Stack the program holds
  sres,  \* the last Stack call: its arguments, the head before it, what it returned or threw
  optional,  \* the Optional the program holds
  ores  \* the last Optional call: its arguments, the Optional it was made on, what it returned or threw

vars == <<map, set, before, old, ref, sref, used, lastOp,
          queue, qref, qres, hashInput, hashOutput,
          shared, original, writers, seen,
          stack, sres,
          optional, ores>>

----------------------------------------------------------------------------
(* JavaScript numbers and values *)

Limb == 2 ^ 16

JSNum(hi, lo, fr) == [nan |-> FALSE, hi |-> hi, lo |-> lo, fr |-> fr]

JSInt(n) == JSNum(n \div Limb, n % Limb, 0)

JSNaN == [nan |-> TRUE, hi |-> 0, lo |-> 0, fr |-> 0]

\* a === b on numbers: NaN is not equal to itself
StrictEqNum(a, b) == ~a.nan /\ ~b.nan /\ a = b

JSNumber(num) == [t |-> "number", num |-> num, str |-> <<>>, items |-> <<>>]

JSBoolean(b) == [t |-> "boolean", num |-> JSInt(IF b THEN 1 ELSE 0), str |-> <<>>, items |-> <<>>]

JSNull == [t |-> "null", num |-> JSInt(0), str |-> <<>>, items |-> <<>>]

JSUndefined == [t |-> "undefined", num |-> JSInt(0), str |-> <<>>, items |-> <<>>]

JSString(s) == [t |-> "string", num |-> JSInt(0), str |-> s, items |-> <<>>]

\* a function, a bigint or a symbol, with the text its toString() returns
JSFunction(source) == [t |-> "function", num |-> JSInt(0), str |-> source, items |-> <<>>]

JSBigInt(digits) == [t |-> "bigint", num |-> JSInt(0), str |-> digits, items |-> <<>>]

JSSymbol(text) == [t |-> "symbol", num |-> JSInt(0), str |-> text, items |-> <<>>]

JSArray(items) == [t |-> "array", num |-> JSInt(0), str |-> <<>>, items |-> items]

\* an object: the name of its constructor and its own enumerable properties,
\* a sequence of <<key, value>>
JSObject(name, properties) ==
  [t |-> "object", num |-> JSInt(0), str |-> name, items |-> properties]

\* Object.create(null) with properties: value.constructor is undefined
JSBareObject(properties) ==
  [t |-> "bare", num |-> JSInt(0), str |-> <<>>, items |-> properties]

\* a === b on values
StrictEq(a, b) ==
  IF a.t = "number" /\ b.t = "number" THEN StrictEqNum(a.num, b.num) ELSE a = b

----------------------------------------------------------------------------
(* hamt/hash.ts: 32-bit words are pairs of 16-bit halves; the doubles the   *)
(* arithmetic of xxHash32 goes through are non-negative integers below     *)
(* 2^80, kept as five 16-bit limbs (least significant first) and rounded   *)
(* to 53 significant bits after every operation, as JavaScript does.       *)

Word(hi, lo) == [hi |-> hi, lo |-> lo]

Pow2(n) == IF n = 0 THEN 1 ELSE 2 ^ n

\* exact product of two 16-bit numbers
Mul16(a, b) ==
  LET p0 == a * (b % 256)
      p1 == a * (b \div 256)
      low == p0 + (p1 % 256) * 256
  IN  Word((p1 \div 256) + (low \div Limb), low % Limb)

\* exact product of two words
Product(x, y) ==
  LET Columns(ll, lh, hl, hh) ==
        LET t1 == ll.hi + lh.lo + hl.lo
            t2 == lh.hi + hl.hi + hh.lo + (t1 \div Limb)
        IN  <<ll.lo, t1 % Limb, t2 % Limb, hh.hi + (t2 \div Limb), 0>>
  IN  Columns(Mul16(x.lo, y.lo), Mul16(x.lo, y.hi),
              Mul16(x.hi, y.lo), Mul16(x.hi, y.hi))

\* exact sum of two numbers of five limbs
Sum(a, b) ==
  LET t1 == a[1] + b[1]
      t2 == a[2] + b[2] + (t1 \div Limb)
      t3 == a[3] + b[3] + (t2 \div Limb)
      t4 == a[4] + b[4] + (t3 \div Limb)
      t5 == a[5] + b[5] + (t4 \div Limb)
  IN  <<t1 % Limb, t2 % Limb, t3 % Limb, t4 % Limb, t5 % Limb>>

\* number of significant bits of a limb
BitLength(n) ==
  CHOOSE k \in 0..16 : n < Pow2(k) /\ (k = 0 \/ n >= Pow2(k - 1))

LimbsBitLength(a) ==
  IF \A i \in 1..Len(a) : a[i] = 0
  THEN 0
  ELSE LET k == CHOOSE i \in 1..Len(a) :
                  a[i] # 0 /\ \A j \in (i + 1)..Len(a) : a[j] = 0
       IN  16 * (k - 1) + BitLength(a[k])

\* the double nearest to an integer (ties to even): what * and + return
RoundToDouble(a) ==
  LET Drop(d) ==
        IF d <= 0
        THEN a
        ELSE LET r == a[1] % Pow2(d)
                 half == Pow2(d - 1)
                 down == [a EXCEPT ![1] = a[1] - r]
                 odd == (a[1] \div Pow2(d)) % 2 = 1
             IN  IF r > half \/ (r = half /\ odd)
                 THEN Sum(down, <<Pow2(d), 0, 0, 0, 0>>)
                 ELSE down
  IN  <<a, Drop(LimbsBitLength(a) - 53)>>[2]

\* x >>> 0 of a non-negative double
ToUint32(a) == Word(a[2], a[1])

\* the bit pattern of -x
Neg32(w) ==
  IF w.lo = 0
  THEN Word((Limb - w.hi) % Limb, 0)
  ELSE Word(Limb - 1 - w.hi, Limb - w.lo)

Add32(a, b) ==
  LET t == a.lo + b.lo
  IN  Word((a.hi + b.hi + (t \div Limb)) % Limb, t % Limb)

\* (x * prime) >>> 0 for a uint32 x; here and below a tuple <<x, e>>[2] is
\* e with the argument x evaluated first, as a call evaluates its arguments
MulUint32(x, prime) == <<x, ToUint32(RoundToDouble(Product(x, prime)))>>[2]

\* (x * prime) >>> 0 for the int32 x with the bit pattern w (x is what ^= leaves)
MulInt32(w, prime) ==
  IF w.hi >= Pow2(15)
  THEN Neg32(ToUint32(RoundToDouble(Product(Neg32(w), prime))))
  ELSE ToUint32(RoundToDouble(Product(w, prime)))

\* (h + x * prime) >>> 0 for uint32 h and x
AddMul(h, x, prime) ==
  ToUint32(RoundToDouble(Sum(RoundToDouble(Product(x, prime)),
                             <<h.lo, h.hi, 0, 0, 0>>)))

\* Math.imul
Imul(x, y) == <<x, ToUint32(Product(x, y))>>[2]

\* a ^ b on 4-bit and on 16-bit numbers
Xor4(a, b) ==
  (((a % 2) + (b % 2)) % 2)
    + 2 * ((((a \div 2) % 2) + ((b \div 2) % 2)) % 2)
    + 4 * ((((a \div 4) % 2) + ((b \div 4) % 2)) % 2)
    + 8 * ((((a \div 8) % 2) + ((b \div 8) % 2)) % 2)

Xor16(a, b) ==
  Xor4(a % 16, b % 16)
    + 16 * Xor4((a \div 16) % 16, (b \div 16) % 16)
    + 256 * Xor4((a \div 256) % 16, (b \div 256) % 16)
    + 4096 * Xor4(a \div 4096, b \div 4096)

Xor32(x, y) == Word(Xor16(x.hi, y.hi), Xor16(x.lo, y.lo))

\* w >>> k for 0 < k <= 16
ShiftRight(w, k) ==
  IF k = 16
  THEN Word(0, w.hi)
  ELSE Word(w.hi \div Pow2(k),
            (w.lo \div Pow2(k)) + (w.hi % Pow2(k)) * Pow2(16 - k))

\* hash ^= hash >>> k
XorShift(hash, k) == <<hash, Xor32(hash, ShiftRight(hash, k))>>[2]

rotateLeft32(value, bits) ==
  LET w == IF bits >= 16 THEN Word(value.lo, value.hi) ELSE value
      b == bits % 16
  IN  <<value,
        IF b = 0
        THEN w
        ELSE Word(((w.hi * Pow2(b)) % Limb) + (w.lo \div Pow2(16 - b)),
                  ((w.lo * Pow2(b)) % Limb) + (w.hi \div Pow2(16 - b)))>>[2]

\* offset counts from 0, as in the source
readUint32LittleEndian(byteArray, offset) ==
  Word(byteArray[offset + 4] * 256 + byteArray[offset + 3],
       byteArray[offset + 2] * 256 + byteArray[offset + 1])

PRIME_32_1 == Word(40503, 31153)

PRIME_32_2 == Word(34283, 51831)

PRIME_32_3 == Word(49842, 44605)

PRIME_32_4 == Word(10196, 60207)

PRIME_32_5 == Word(5718, 26545)

\* UTF-8 of one code point
Utf8(c) ==
  IF c < 128 THEN <<c>>
  ELSE IF c < 2048
       THEN <<192 + (c \div 64), 128 + (c % 64)>>
       ELSE IF c < 65536
            THEN <<224 + (c \div 4096), 128 + ((c \div 64) % 64), 128 + (c % 64)>>
            ELSE <<240 + (c \div 262144), 128 + ((c \div 4096) % 64),
                   128 + ((c \div 64) % 64), 128 + (c % 64)>>

\* number of bytes the first n code points take
Utf8Length(input, n) ==
  Cardinality({p \in (1..n) \X (1..4) : p[2] <= Len(Utf8(input[p[1]]))})

\* new TextEncoder().encode(input): UTF-8 of a sequence of code points
TextEncode(input) ==
  [j \in 1..Utf8Length(input, Len(input)) |->
     LET i == CHOOSE i \in 1..Len(input) :
                Utf8Length(input, i - 1) < j /\ j <= Utf8Length(input, i)
     IN  Utf8(input[i])[j - Utf8Length(input, i - 1)]]

\* one lane of the 16-byte loop
XXRound(value, lane) ==
  MulUint32(rotateLeft32(AddMul(value, lane, PRIME_32_2), 13), PRIME_32_1)

\* while (currentPosition <= processLimit): the loop state is
\* (value1 .. value4, currentPosition); one turn takes 16 bytes
RECURSIVE XXStripes(_, _)
XXStripes(state, byteArray) ==
  IF state.currentPosition > Len(byteArray) - 16
  THEN state
  ELSE XXStripes(
         [values |->
            <<XXRound(state.values[1],
                      readUint32LittleEndian(byteArray, state.currentPosition)),
              XXRound(state.values[2],
                      readUint32LittleEndian(byteArray, state.currentPosition + 4)),
              XXRound(state.values[3],
                      readUint32LittleEndian(byteArray, state.currentPosition + 8)),
              XXRound(state.values[4],
                      readUint32LittleEndian(byteArray, state.currentPosition + 12))>>,
          currentPosition |-> state.currentPosition + 16],
         byteArray)

\* while (currentPosition + 4 <= inputLength): the loop state is
\* (hash32, currentPosition)
RECURSIVE XXWords(_, _)
XXWords(state, byteArray) ==
  IF state.currentPosition + 4 > Len(byteArray)
  THEN state
  ELSE XXWords(
         [hash32 |->
            MulUint32(
              rotateLeft32(
                AddMul(state.hash32,
                       readUint32LittleEndian(byteArray, state.currentPosition),
                       PRIME_32_3),
                17),
              PRIME_32_4),
          currentPosition |-> state.currentPosition + 4],
         byteArray)

\* while (currentPosition < inputLength)
RECURSIVE XXBytes(_, _)
XXBytes(state, byteArray) ==
  IF state.currentPosition >= Len(byteArray)
  THEN state
  ELSE XXBytes(
         [hash32 |->
            MulUint32(
              rotateLeft32(
                AddMul(state.hash32,
                       Word(0, byteArray[state.currentPosition + 1]),
                       PRIME_32_5),
                11),
              PRIME_32_1),
          currentPosition |-> state.currentPosition + 1],
         byteArray)

\* hash32 after the 16-byte loop, or without it, and then
\* hash32 = (hash32 + inputLength) >>> 0
XXStart(stripes, inputLength, seed) ==
  [currentPosition |-> IF inputLength >= 16 THEN stripes.currentPosition ELSE 0,
   hash32 |->
     Add32(IF inputLength >= 16
           THEN Add32(Add32(rotateLeft32(stripes.values[1], 1),
                            rotateLeft32(stripes.values[2], 7)),
                      Add32(rotateLeft32(stripes.values[3], 12),
                            rotateLeft32(stripes.values[4], 18)))
           ELSE Add32(seed, PRIME_32_5),
           Word(inputLength \div Limb, inputLength % Limb))]

\* the last five statements on hash32
XXFinish(hash32) ==
  <<hash32,
    XorShift(MulInt32(XorShift(MulInt32(XorShift(hash32, 15), PRIME_32_2), 13),
                      PRIME_32_3),
             16)>>[2]

\* the statements after the encoding of the input
XXHash(inputByteArray, seed) ==
  <<inputByteArray,
    XXFinish(
      XXBytes(
        XXWords(
          XXStart(XXStripes([values |->
                               <<Add32(Add32(seed, PRIME_32_1), PRIME_32_2),
                                 Add32(seed, PRIME_32_2),
                                 seed,
                                 Add32(seed, Neg32(PRIME_32_1))>>,
                             currentPosition |-> 0],
                            inputByteArray),
                  Len(inputByteArray), seed),
          inputByteArray),
        inputByteArray).hash32)>>[2]

xxHash32(input, seed) == XXHash(TextEncode(input), seed)

avalanche32(hash) ==
  <<hash,
    XorShift(Imul(XorShift(Imul(XorShift(hash, 16), Word(34283, 51819)), 13),
                  Word(49842, 44597)),
             16)>>[2]

\* the default algorithm: avalanche32(xxHash32(String(value)))
Algorithm(string) == <<string, avalanche32(xxHash32(string, Word(0, 0)))>>[2]

----------------------------------------------------------------------------
(* hamt/hash.ts: Hasher *)

ToNumber(w) == JSNum(w.hi, w.lo, 0)

\* decimal digits of hi * 2^16 + lo
RECURSIVE DecimalDigits(_, _)
DecimalDigits(hi, lo) ==
  IF hi = 0 /\ lo < 10
  THEN <<48 + lo>>
  ELSE LET t == (hi % 10) * Limb + lo
       IN  DecimalDigits(hi \div 10, t \div 10) \o <<48 + (t % 10)>>

\* Number::toString for integers and halves below 10^21, and NaN
NumberToString(num) ==
  IF num.nan
  THEN <<78, 97, 78>>
  ELSE LET negative == num.hi < 0
           low == num.lo + num.fr
           mhi == IF ~negative THEN num.hi
                  ELSE IF low = 0 THEN -num.hi ELSE -num.hi - 1
           mlo == IF ~negative THEN num.lo
                  ELSE IF low = 0 THEN 0 ELSE Limb - low
       IN  (IF negative THEN <<45>> ELSE <<>>)
             \o DecimalDigits(mhi, mlo)
             \o (IF num.fr = 1 THEN <<46, 53>> ELSE <<>>)

\* `${value}` throws a TypeError for a symbol and for an object without
\* toString, also inside an array (join converts every element)
RECURSIVE StringOfThrows(_)
StringOfThrows(value) ==
  \/ value.t \in {"symbol", "bare"}
  \/ /\ value.t = "array"
     /\ \E i \in 1..Len(value.items) : StringOfThrows(value.items[i])

\* `${value}` for the values that convert
RECURSIVE StringOf(_)
RECURSIVE JoinItems(_, _)
StringOf(value) ==
  CASE value.t = "string" -> value.str
    [] value.t = "number" -> NumberToString(value.num)
    [] value.t = "boolean" ->
         IF value.num = JSInt(1) THEN <<116, 114, 117, 101>>
                                 ELSE <<102, 97, 108, 115, 101>>
    [] value.t = "null" -> <<110, 117, 108, 108>>
    [] value.t = "undefined" -> <<117, 110, 100, 101, 102, 105, 110, 101, 100>>
    [] value.t \in {"function", "bigint"} -> value.str
    [] value.t = "array" -> JoinItems(value.items, 1)
    [] OTHER -> <<91, 111, 98, 106, 101, 99, 116, 32, 79, 98, 106, 101, 99, 116, 93>>

\* Array.prototype.join(','): null and undefined elements give ''
JoinItems(items, i) ==
  IF i > Len(items)
  THEN <<>>
  ELSE (IF i > 1 THEN <<44>> ELSE <<>>)
         \o (IF items[i].t \in {"null", "undefined"} THEN <<>> ELSE StringOf(items[i]))
         \o JoinItems(items, i + 1)

\* Hasher.hash throws a TypeError: value.constructor.name on an object without
\* constructor, `${key}:${val}` on a property that does not convert
RECURSIVE HasherThrows(_)
HasherThrows(value) ==
  \/ value.t = "bare"
  \/ /\ value.t = "array"
     /\ \E i \in 1..Len(value.items) : HasherThrows(value.items[i])
  \/ /\ value.t = "object"
     /\ \E i \in 1..Len(value.items) : StringOfThrows(value.items[i][2])

\* Hasher.hash with the default algorithm, for the values it returns for
RECURSIVE HasherHash(_)
RECURSIVE HashesJoin(_, _)
RECURSIVE PropertiesJoin(_, _)
HasherHash(value) ==
  CASE value.t = "number" -> value.num
    [] value.t = "boolean" -> IF value.num = JSInt(1) THEN JSInt(1) ELSE JSInt(0)
    [] value.t \in {"null", "undefined"} -> JSInt(0)
    [] OTHER ->
         \* the branches that return algorithm(...), by what they hand to it:
         \* the string itself, value.toString(), hashes.join(','), or
         \* name + the joined hashes of the properties
         ToNumber(Algorithm(
           CASE value.t \in {"string", "function", "bigint", "symbol"} -> value.str
             [] value.t = "array" -> HashesJoin(value.items, 1)
             [] OTHER -> value.str \o PropertiesJoin(value.items, 1)))

\* value.map((item) => Hasher().hash(item)).join(',')
HashesJoin(items, i) ==
  IF i > Len(items)
  THEN <<>>
  ELSE (IF i > 1 THEN <<44>> ELSE <<>>)
         \o NumberToString(HasherHash(items[i]))
         \o HashesJoin(items, i + 1)

\* properties.map(([key, val]) => algorithm(`${key}:${val}`)).join('')
PropertiesJoin(properties, i) ==
  IF i > Len(properties)
  THEN <<>>
  ELSE NumberToString(
         ToNumber(Algorithm(properties[i][1] \o <<58>> \o StringOf(properties[i][2]))))
         \o PropertiesJoin(properties, i + 1)

\* the hash is an integer in [0, 2^32)
IsUint32(h) == ~h.nan /\ h.fr = 0 /\ h.hi >= 0 /\ h.hi < Limb

----------------------------------------------------------------------------
(* hamt/bitmap.ts: Bitmap.  A bitmap is the set of its set bit positions; *)
(* a one-hot value 1 << d is the position d.                               *)

\* ToInt32(number) as the pair of 16-bit halves of its two's complement
ToInt32(h) ==
  IF h.nan THEN [hi |-> 0, lo |-> 0]
  ELSE IF h.fr = 1 /\ h.hi < 0
       THEN IF h.lo = Limb - 1
            THEN [hi |-> (h.hi + 1) % Limb, lo |-> 0]
            ELSE [hi |-> h.hi % Limb, lo |-> h.lo + 1]
       ELSE [hi |-> h.hi % Limb, lo |-> h.lo]

\* bit i of a 32-bit pattern, sign-extended above bit 31 (as >> does)
BitOf(w, i) ==
  IF i < 16 THEN (w.lo \div Pow2(i)) % 2
  ELSE IF i < 32 THEN (w.hi \div Pow2(i - 16)) % 2
  ELSE (w.hi \div Pow2(15)) % 2

\* (hash >> shift) & 0x1F ; the shift count of >> is taken modulo 32
Digit(hash, shift) ==
  LET w == ToInt32(hash)
      s == shift % 32
  IN  BitOf(w, s) + 2 * BitOf(w, s + 1) + 4 * BitOf(w, s + 2)
        + 8 * BitOf(w, s + 3) + 16 * BitOf(w, s + 4)

BitmapBitpos(hash, shift) == Digit(hash, shift)

BitmapNext(bitmap, bitpos) == bitmap \cup {bitpos}

BitmapWithout(bitmap, bitpos) == bitmap \ {bitpos}

BitmapHas(bitmap, bitpos) == bitpos \in bitmap

\* population count of the bits strictly below bitpos
BitmapIndex(bitmap, bitpos) == Cardinality({b \in bitmap : b < bitpos})

----------------------------------------------------------------------------
(* hamt/node.ts: LeafNode and BitmapIndexedNode *)

LeafNode(hash, key, value) ==
  [kind |-> "leaf", hash |-> hash, key |-> key, value |-> value,
   bitmap |-> {}, children |-> <<>>]

BitmapIndexedNode(bitmap, children) ==
  [kind |-> "bitmap", hash |-> JSInt(0), key |-> JSUndefined, value |-> JSUndefined,
   bitmap |-> bitmap, children |-> children]

\* the facade's root of the empty collection
Null ==
  [kind |-> "null", hash |-> JSInt(0), key |-> JSUndefined, value |-> JSUndefined,
   bitmap |-> {}, children |-> <<>>]

\* "absent": what remove and find return for no node
Absent ==
  [kind |-> "undefined", hash |-> JSInt(0), key |-> JSUndefined, value |-> JSUndefined,
   bitmap |-> {}, children |-> <<>>]

\* the split recursion ran out of hash bits (no level tells the hashes apart)
Exhausted ==
  [kind |-> "exhausted", hash |-> JSInt(0), key |-> JSUndefined, value |-> JSUndefined,
   bitmap |-> {}, children |-> <<>>]

MaxShift == 30

InsertAt(seq, i, x) == SubSeq(seq, 1, i - 1) \o <<x>> \o SubSeq(seq, i, Len(seq))

RemoveAt(seq, i) == SubSeq(seq, 1, i - 1) \o SubSeq(seq, i + 1, Len(seq))

ReplaceAt(seq, i, x) == [seq EXCEPT ![i] = x]

RECURSIVE NodeAdd(_, _, _, _, _)
NodeAdd(node, hash, shift, key, value) ==
  IF node.kind = "leaf"
  THEN IF StrictEqNum(hash, node.hash)
       THEN LeafNode(hash, key, value)
       ELSE IF shift > MaxShift
            THEN Exhausted
            ELSE LET mine == BitmapBitpos(node.hash, shift)
                     theirs == BitmapBitpos(hash, shift)
                 IN  IF mine = theirs
                     THEN BitmapIndexedNode({mine},
                            <<NodeAdd(node, hash, shift + 5, key, value)>>)
                     ELSE IF mine < theirs
                          THEN BitmapIndexedNode({mine, theirs},
                                 <<node, LeafNode(hash, key, value)>>)
                          ELSE BitmapIndexedNode({mine, theirs},
                                 <<LeafNode(hash, key, value), node>>)
  ELSE LET bitpos == BitmapBitpos(hash, shift)
           index == BitmapIndex(node.bitmap, bitpos) + 1
       IN  IF ~BitmapHas(node.bitmap, bitpos)
           THEN BitmapIndexedNode(BitmapNext(node.bitmap, bitpos),
                  InsertAt(node.children, index, LeafNode(hash, key, value)))
           ELSE BitmapIndexedNode(node.bitmap,
                  ReplaceAt(node.children, index,
                    NodeAdd(node.children[index], hash, shift + 5, key, value)))

RECURSIVE NodeRemove(_, _, _)
NodeRemove(node, hash, shift) ==
  IF node.kind = "leaf"
  THEN IF StrictEqNum(hash, node.hash) THEN Absent ELSE node
  ELSE LET bitpos == BitmapBitpos(hash, shift)
           index == BitmapIndex(node.bitmap, bitpos) + 1
       IN  IF ~BitmapHas(node.bitmap, bitpos)
           THEN node
           ELSE LET child == NodeRemove(node.children[index], hash, shift + 5)
                IN  IF child = Absent
                    THEN IF Len(node.children) = 1
                         THEN Absent
                         ELSE BitmapIndexedNode(BitmapWithout(node.bitmap, bitpos),
                                RemoveAt(node.children, index))
                    ELSE BitmapIndexedNode(node.bitmap,
                           ReplaceAt(node.children, index, child))

\* Whether remove hands back the receiver itself.  A leaf never does: for its
\* own hash it returns undefined, for another hash a node that is not the
\* receiver and has the receiver's key and value.
LeafRemoveReturnsReceiver(node, hash) == FALSE

\* a BitmapIndexed node returns itself when the slot of the hash is not set
BitmapRemoveReturnsReceiver(node, hash, shift) ==
  ~BitmapHas(node.bitmap, BitmapBitpos(hash, shift))

RECURSIVE NodeGet(_, _, _)
NodeGet(node, hash, shift) ==
  IF node.kind = "leaf"
  THEN IF StrictEqNum(hash, node.hash) THEN node.value ELSE JSUndefined
  ELSE LET bitpos == BitmapBitpos(hash, shift)
       IN  IF ~BitmapHas(node.bitmap, bitpos)
           THEN JSUndefined
           ELSE NodeGet(node.children[BitmapIndex(node.bitmap, bitpos) + 1],
                  hash, shift + 5)

RECURSIVE NodeContains(_, _, _)
NodeContains(node, hash, shift) ==
  IF node.kind = "leaf"
  THEN StrictEqNum(hash, node.hash)
  ELSE LET bitpos == BitmapBitpos(hash, shift)
       IN  IF ~BitmapHas(node.bitmap, bitpos)
           THEN FALSE
           ELSE NodeContains(node.children[BitmapIndex(node.bitmap, bitpos) + 1],
                  hash, shift + 5)

\* A predicate (key, value) => boolean is the set of pairs it holds for.
\* find on a leaf returns the leaf itself iff the predicate holds; on a
\* BitmapIndexed node find and exists scan every child in array order.
RECURSIVE NodeFind(_, _)
RECURSIVE ChildrenFind(_, _, _)
ChildrenFind(children, i, predicate) ==
  IF i > Len(children) THEN Absent
  ELSE IF NodeFind(children[i], predicate) # Absent
       THEN NodeFind(children[i], predicate)
       ELSE ChildrenFind(children, i + 1, predicate)

NodeFind(node, predicate) ==
  IF node.kind = "leaf"
  THEN IF <<node.key, node.value>> \in predicate THEN node ELSE Absent
  ELSE ChildrenFind(node.children, 1, predicate)

RECURSIVE NodeExists(_, _)
NodeExists(node, predicate) ==
  IF node.kind = "leaf"
  THEN <<node.key, node.value>> \in predicate
  ELSE \E i \in 1..Len(node.children) : NodeExists(node.children[i], predicate)

RECURSIVE NodeToArray(_)
RECURSIVE ChildrenToArray(_, _)
ChildrenToArray(children, i) ==
  IF i > Len(children) THEN <<>>
  ELSE NodeToArray(children[i]) \o ChildrenToArray(children, i + 1)

NodeToArray(node) ==
  IF node.kind = "leaf"
  THEN << <<node.key, node.value>> >>
  ELSE ChildrenToArray(node.children, 1)

----------------------------------------------------------------------------
(* optional/common.ts: Optional *)

\* inner is Some(value) or None(): isPresent and the value held
Optional(value) == [isPresent |-> ~(value = JSUndefined), value |-> value]

empty == Optional(JSUndefined)

nullable(value) ==
  IF value = JSNull \/ value = JSUndefined THEN empty ELSE Optional(value)

\* A method of the Optional over inner yields the error thrown ("" when it
\* returns) and what it returns.
\* A callback is a function on the values; a supplier is the value it returns.

\* mutant: get of None returns undefined
OptionalGetUndefined(inner) == [error |-> "", value |-> inner.value]

OptionalGet(inner) ==
  IF inner.isPresent
  THEN [error |-> "", value |-> inner.value]
  ELSE [error |-> "NoSuchElementException: No value present", value |-> JSUndefined]

OptionalIfPresent(inner, callback) ==
  IF inner.isPresent
  THEN [error |-> "", value |-> callback[OptionalGet(inner).value]]
  ELSE [error |-> "NoSuchElementException: No value present", value |-> JSUndefined]

OptionalIfPresentOrElse(inner, ifPresent, ifNotPresent) ==
  IF inner.isPresent
  THEN [error |-> "", value |-> ifPresent[OptionalGet(inner).value]]
  ELSE [error |-> "", value |-> ifNotPresent]

OptionalOrElse(inner, alternative) ==
  IF inner.isPresent
  THEN [error |-> "", value |-> OptionalGet(inner).value]
  ELSE [error |-> "", value |-> alternative]

OptionalOrElseGet(inner, supplier) ==
  IF inner.isPresent
  THEN [error |-> "", value |-> OptionalGet(inner).value]
  ELSE [error |-> "", value |-> supplier]

\* error is the name of the error class handed in, "" when none is
OptionalOrElseThrow(inner, error) ==
  IF inner.isPresent
  THEN [error |-> "", value |-> OptionalGet(inner).value]
  ELSE [error |-> IF error # "" THEN error ELSE "NoSuchElementException: No value present",
        value |-> JSUndefined]

OptionalMap(inner, mapper) ==
  IF inner.isPresent
  THEN [error |-> "", value |-> Optional(mapper[OptionalGet(inner).value])]
  ELSE [error |-> "", value |-> empty]

----------------------------------------------------------------------------
(* map/common.ts: ImmutableMap.  A facade instance is its closure variable *)
(* root; a method that returns a collection yields [self, ret]: the root   *)
(* of the receiver after the call and the root of the returned instance.   *)

\* the default parameter (root = null) applies when undefined is passed
ImmutableMap(root) == IF root = Absent THEN Null ELSE root

\* mutant: toArray lists the pairs from the last child to the first
MapToArrayReversed(root) ==
  IF root = Null THEN <<>>
  ELSE [i \in 1..Len(NodeToArray(root)) |->
          NodeToArray(root)[Len(NodeToArray(root)) + 1 - i]]

MapToArray(root) == IF root = Null THEN <<>> ELSE NodeToArray(root)

\* keys and values map toArray() to its first and second components
MapKeys(root) == [i \in 1..Len(MapToArray(root)) |-> MapToArray(root)[i][1]]

MapValues(root) == [i \in 1..Len(MapToArray(root)) |-> MapToArray(root)[i][2]]

\* foreach: the calls of the callback, in order, as <<key, value>> arguments
MapForeach(root) == [i \in 1..Len(MapToArray(root)) |-> MapToArray(root)[i]]

MapSize(root) == Len(MapToArray(root))

\* mutant: add assigns the new root to the receiver's own closure variable
MapAddInPlace(root, key, value) ==
  LET hash == HasherHash(key)
      next == IF root = Null
              THEN ImmutableMap(LeafNode(hash, key, value))
              ELSE ImmutableMap(NodeAdd(root, hash, 0, key, value))
  IN  [self |-> next, ret |-> next]

\* mutant: add calls root?.add(...) and so drops the pair added to an empty map
MapAddOptionalChain(root, key, value) ==
  [self |-> root,
   ret |-> ImmutableMap(IF root = Null THEN Absent
                        ELSE NodeAdd(root, HasherHash(key), 0, key, value))]

\* mutant: add keeps the pair already stored under the hash (first write wins)
MapAddKeepExisting(root, key, value) ==
  LET hash == HasherHash(key)
  IN  [self |-> root,
       ret |-> IF root = Null
               THEN ImmutableMap(LeafNode(hash, key, value))
               ELSE IF NodeContains(root, hash, 0)
                    THEN root
                    ELSE ImmutableMap(NodeAdd(root, hash, 0, key, value))]

\* mutant: add hands the root shift 5 instead of 0
MapAddShifted(root, key, value) ==
  LET hash == HasherHash(key)
  IN  [self |-> root,
       ret |-> IF root = Null
               THEN ImmutableMap(LeafNode(hash, key, value))
               ELSE ImmutableMap(NodeAdd(root, hash, 5, key, value))]

MapAdd(root, key, value) ==
  LET hash == HasherHash(key)
  IN  [self |-> root,
       ret |-> IF root = Null
               THEN ImmutableMap(LeafNode(hash, key, value))
               ELSE ImmutableMap(NodeAdd(root, hash, 0, key, value))]

\* mutant: remove of a key that is not found returns the empty map
MapRemoveNotFoundEmpty(root, key) ==
  [self |-> root,
   ret |-> ImmutableMap(IF root = Null \/ ~NodeContains(root, HasherHash(key), 0)
                        THEN Absent
                        ELSE NodeRemove(root, HasherHash(key), 0))]

\* mutant: remove wraps an empty node instead of leaving the root to default to null
MapRemoveKeepsEmptyNode(root, key) ==
  LET next == IF root = Null THEN Absent ELSE NodeRemove(root, HasherHash(key), 0)
  IN  [self |-> root,
       ret |-> IF next = Absent THEN BitmapIndexedNode({}, <<>>) ELSE next]

MapRemove(root, key) ==
  [self |-> root,
   ret |-> ImmutableMap(IF root = Null THEN Absent
                        ELSE NodeRemove(root, HasherHash(key), 0))]

\* mutant: the lookup compares the 5-bit digit at shift 0 instead of the hash
MapGetByDigit(root, key) ==
  LET hash == HasherHash(key)
  IN  Optional(IF root = Null THEN JSUndefined
               ELSE IF root.kind = "leaf" /\ Digit(hash, 0) = Digit(root.hash, 0)
                    THEN root.value
                    ELSE NodeGet(root, hash, 0))

MapGet(root, key) ==
  LET hash == HasherHash(key)
  IN  Optional(IF root = Null THEN JSUndefined ELSE NodeGet(root, hash, 0))

MapContains(root, key) ==
  LET hash == HasherHash(key)
  IN  IF root = Null THEN FALSE ELSE NodeContains(root, hash, 0)

\* find wraps root?.find(predicate)?.value()
MapFind(root, predicate) ==
  Optional(IF root = Null \/ NodeFind(root, predicate) = Absent
           THEN JSUndefined
           ELSE NodeFind(root, predicate).value)

\* mutant: exists asks the first pair of toArray() only
MapExistsFirstPair(root, predicate) ==
  /\ MapToArray(root) # <<>>
  /\ MapToArray(root)[1] \in predicate

MapExists(root, predicate) ==
  IF root = Null THEN FALSE ELSE NodeExists(root, predicate)

RECURSIVE FromArrayReduce(_, _, _)
FromArrayReduce(carry, items, i) ==
  IF i > Len(items) THEN carry
  ELSE FromArrayReduce(
         NodeAdd(carry, HasherHash(items[i][1]), 0, items[i][1], items[i][2]),
         items, i + 1)

Reverse(seq) == [i \in 1..Len(seq) |-> seq[Len(seq) + 1 - i]]

\* mutant: fromArray folds the items from the right (the first occurrence wins)
MapFromArrayRight(items) ==
  ImmutableMap(FromArrayReduce(BitmapIndexedNode({}, <<>>), Reverse(items), 1))

MapFromArray(items) == ImmutableMap(FromArrayReduce(BitmapIndexedNode({}, <<>>), items, 1))

----------------------------------------------------------------------------
(* set/common.ts: ImmutableSet; the value stored with every key is         *)
(* voidValue = undefined.                                                  *)

\* equals with the default callback (left === right): the size test, then
\* every() over toArray() of the receiver, which stops at the first false;
\* comparison.get(key).get() throws NoSuchElementException on an empty Optional.
\* The result is "true", "false" or "throw".
RECURSIVE MapEqualsEvery(_, _, _)
MapEqualsEvery(selfItems, i, comparison) ==
  IF i > Len(selfItems)
  THEN "true"
  ELSE LET key == selfItems[i][1]
           value == selfItems[i][2]
           comparisonValue == MapGet(comparison, key)
       IN  IF ~MapContains(comparison, key)
           THEN "false"
           ELSE IF ~comparisonValue.isPresent
                THEN "throw"
                ELSE IF ~StrictEq(value, comparisonValue.value)
                     THEN "false"
                     ELSE MapEqualsEvery(selfItems, i + 1, comparison)

MapEquals(root, comparison) ==
  IF MapSize(root) # MapSize(comparison)
  THEN "false"
  ELSE MapEqualsEvery(MapToArray(root), 1, comparison)

ImmutableSet(root) == IF root = Absent THEN Null ELSE root

RECURSIVE KeysOf(_)
KeysOf(entries) ==
  IF entries = <<>> THEN <<>> ELSE <<Head(entries)[1]>> \o KeysOf(Tail(entries))

SetToArray(root) == IF root = Null THEN <<>> ELSE KeysOf(NodeToArray(root))

SetSize(root) == Len(SetToArray(root))

SetAdd(root, key) ==
  LET hash == HasherHash(key)
  IN  [self |-> root,
       ret |-> IF root = Null
               THEN ImmutableSet(LeafNode(hash, key, JSUndefined))
               ELSE ImmutableSet(NodeAdd(root, hash, 0, key, JSUndefined))]

RECURSIVE AddAllReduce(_, _, _)
AddAllReduce(carry, keys, i) ==
  IF i > Len(keys) THEN carry
  ELSE AddAllReduce(NodeAdd(carry, HasherHash(keys[i]), 0, keys[i], JSUndefined),
         keys, i + 1)

\* mutant: addAll seeds the reduce with an empty node whatever the root is
SetAddAllFromEmpty(root, keys) ==
  [self |-> root,
   ret |-> ImmutableSet(AddAllReduce(BitmapIndexedNode({}, <<>>), keys, 1))]

SetAddAll(root, keys) ==
  [self |-> root,
   ret |-> ImmutableSet(AddAllReduce(
             IF root = Null THEN BitmapIndexedNode({}, <<>>) ELSE root, keys, 1))]

\* mutant: remove tests root !== null for the empty case and so clears the set
SetRemoveClears(root, key) ==
  [self |-> root, ret |-> ImmutableSet(Null)]

SetRemove(root, key) ==
  LET hash == HasherHash(key)
  IN  [self |-> root,
       ret |-> IF root = Null
               THEN ImmutableSet(Null)
               ELSE ImmutableSet(NodeRemove(root, hash, 0))]

SetContains(root, key) ==
  LET hash == HasherHash(key)
  IN  IF root = Null THEN FALSE ELSE NodeContains(root, hash, 0)

SetFromArray(keys) == ImmutableSet(AddAllReduce(BitmapIndexedNode({}, <<>>), keys, 1))

----------------------------------------------------------------------------
(* Queue (two stacks).  A Queue instance is its closure variable data; a   *)
(* method yields self, the receiver's data after the call, next to what it *)
(* returns, and error, the error thrown ("" when it returns).              *)

createQueueData(front, rear) ==
  [front |-> front, rear |-> rear, size |-> Len(front) + Len(rear)]

\* mutant: normalize reverses the receiver's rear array itself (data.rear.reverse())
normalizeInPlace(data) ==
  IF Len(data.front) > 0 \/ Len(data.rear) = 0
  THEN [self |-> data, normalized |-> data]
  ELSE [self |-> [data EXCEPT !.rear = Reverse(data.rear)],
        normalized |-> createQueueData(Reverse(data.rear), <<>>)]

\* moves the rear stack to the front when the front is empty:
\* createQueueData([...data.rear].reverse(), []), the spread copying the rear
normalize(data) ==
  IF Len(data.front) > 0 \/ Len(data.rear) = 0
  THEN [self |-> data, normalized |-> data]
  ELSE [self |-> data, normalized |-> createQueueData(Reverse(data.rear), <<>>)]

QueueToArray(data) == data.front \o data.rear

\* size() returns the size recorded when the data was created
QueueSize(data) == data.size

QueueAdd(data, element) ==
  [self |-> data, queue |-> createQueueData(data.front, Append(data.rear, element))]

QueueOffer(data, element) == QueueAdd(data, element)

\* remove throws NoSuchElementException('Queue is empty') on an empty queue
QueueRemove(data) ==
  LET normalizedData == normalize(data).normalized
  IN  IF Len(normalizedData.front) = 0
      THEN [self |-> normalize(data).self, threw |-> TRUE, error |-> "NoSuchElementException: Queue is empty",
            queue |-> data]
      ELSE [self |-> normalize(data).self, threw |-> FALSE, error |-> "",
            queue |-> createQueueData(Tail(normalizedData.front),
                                      normalizedData.rear)]

QueuePoll(data) ==
  LET normalizedData == normalize(data).normalized
  IN  IF Len(normalizedData.front) = 0
      THEN [self |-> normalize(data).self, queue |-> data,
            element |-> Optional(JSUndefined)]
      ELSE [self |-> normalize(data).self,
            queue |-> createQueueData(Tail(normalizedData.front),
                                      normalizedData.rear),
            element |-> Optional(Head(normalizedData.front))]

\* mutant: element reads front[0] without the test for an empty front
QueueElementUnchecked(data) ==
  LET normalizedData == normalize(data).normalized
  IN  [self |-> normalize(data).self, threw |-> FALSE, error |-> "",
       value |-> IF Len(normalizedData.front) = 0 THEN JSUndefined
                 ELSE Head(normalizedData.front)]

\* element throws NoSuchElementException('Queue is empty') on an empty queue
QueueElement(data) ==
  LET normalizedData == normalize(data).normalized
  IN  IF Len(normalizedData.front) = 0
      THEN [self |-> normalize(data).self, threw |-> TRUE, error |-> "NoSuchElementException: Queue is empty",
            value |-> JSUndefined]
      ELSE [self |-> normalize(data).self, threw |-> FALSE, error |-> "",
            value |-> Head(normalizedData.front)]

QueueElementOption(data) ==
  LET normalizedData == normalize(data).normalized
  IN  [self |-> normalize(data).self,
       element |-> IF Len(normalizedData.front) = 0
                   THEN Optional(JSUndefined)
                   ELSE Optional(Head(normalizedData.front))]

QueuePeek(data) ==
  LET normalizedData == normalize(data).normalized
  IN  [self |-> normalize(data).self,
       element |-> IF Len(normalizedData.front) = 0
                   THEN Optional(JSUndefined)
                   ELSE Optional(Head(normalizedData.front))]

QueueAddAll(data, elements) ==
  IF Len(elements) = 0
  THEN [self |-> data, queue |-> data]
  ELSE [self |-> data, queue |-> createQueueData(data.front, data.rear \o elements)]

QueueClear(data) == [self |-> data, queue |-> createQueueData(<<>>, <<>>)]

\* Array.prototype.map over a sequence; the mapper is a function on the elements
ArrayMap(array, mapper) == [i \in 1..Len(array) |-> mapper[array[i]]]

\* Array.prototype.filter; the predicate is the set of elements it accepts
ArrayFilter(array, predicate) == SelectSeq(array, LAMBDA element : element \in predicate)

QueueMap(data, mapper) ==
  [self |-> data,
   queue |-> createQueueData(ArrayMap(data.front, mapper), ArrayMap(data.rear, mapper))]

QueueFilter(data, predicate) ==
  [self |-> data,
   queue |-> createQueueData(ArrayFilter(data.front, predicate),
                             ArrayFilter(data.rear, predicate))]

Queue(elements) ==
  IF Len(elements) = 0
  THEN createQueueData(<<>>, <<>>)
  ELSE createQueueData(elements, <<>>)

----------------------------------------------------------------------------
(* stack/common.ts: Stack, a linked list of nodes from the top down; a     *)
(* Stack instance is its closure variable head.  A method that can throw   *)
(* yields the error thrown ("" when it returns) next to what it returns.   *)

createNode(value, next) ==
  [value |-> value, next |-> next, size |-> (IF next = Null THEN 0 ELSE next.size) + 1]

StackSize(head) == IF head = Null THEN 0 ELSE head.size

\* fills result[stackSize - 1] down to result[0] while walking from the head
RECURSIVE StackToArray(_)
StackToArray(head) ==
  IF head = Null THEN <<>> ELSE Append(StackToArray(head.next), head.value)

StackPush(head, element) == createNode(element, head)

\* mutant: pop returns a Stack over the same head
StackPopKeepsTop(head) ==
  IF head = Null
  THEN [error |-> "EmptyStackException: Stack is empty", stack |-> head]
  ELSE [error |-> "", stack |-> head]

StackPop(head) ==
  IF head = Null
  THEN [error |-> "EmptyStackException: Stack is empty", stack |-> head]
  ELSE [error |-> "", stack |-> head.next]

\* mutant: peek reads head?.value without the test for an empty stack
StackPeekUnchecked(head) ==
  [error |-> "", value |-> IF head = Null THEN JSUndefined ELSE head.value]

StackPeek(head) ==
  IF head = Null
  THEN [error |-> "EmptyStackException: Stack is empty", value |-> JSUndefined]
  ELSE [error |-> "", value |-> head.value]

StackPeekOption(head) ==
  IF head = Null THEN Optional(JSUndefined) ELSE Optional(head.value)

RECURSIVE StackPushAll(_, _)
StackPushAll(head, elements) ==
  IF elements = <<>> THEN head
  ELSE StackPushAll(createNode(Head(elements), head), Tail(elements))

StackSafePop(head) ==
  IF head = Null
  THEN [stack |-> Null, element |-> Optional(JSUndefined)]
  ELSE [stack |-> head.next, element |-> Optional(head.value)]

StackSafePeek(head) ==
  IF head = Null THEN Optional(JSUndefined) ELSE Optional(head.value)

Stack(elements) ==
  IF Len(elements) = 0 THEN Null ELSE StackPushAll(Null, elements)

----------------------------------------------------------------------------
(* The program around the collections: it builds either a map or a set,  *)
(* one handle, rebound to each returned collection.                       *)

K1 == JSNumber(JSInt(1))
K33 == JSNumber(JSInt(33))
KTrue == JSBoolean(TRUE)
KMinus1 == JSNumber(JSInt(-1))

Keys == {K1, K33, KTrue, KMinus1}

Values == {JSString(<<97>>), JSString(<<98>>), JSUndefined}

Missing == [t |-> "missing", num |-> JSInt(0), str |-> <<>>, items |-> <<>>]

\* the predicates handed to find and exists: none, every pair, one key, one
\* value, the value undefined, one pair
Predicates ==
  { {}, Keys \X Values, {K33} \X Values, Keys \X {JSString(<<98>>)},
    Keys \X {JSUndefined}, {<<K1, JSString(<<97>>)>>} }

MaxItems == 3

ItemLists == UNION {[1..n -> Keys \X Values] : n \in 0..MaxItems}

NoOp == [op |-> "new", key |-> JSUndefined, value |-> JSUndefined, items |-> <<>>]

RECURSIVE RefFromArray(_, _, _)
RefFromArray(r, items, i) ==
  IF i > Len(items) THEN r
  ELSE RefFromArray([r EXCEPT ![items[i][1]] = items[i][2]], items, i + 1)

MaxKeys == 2

KeyLists == UNION {[1..n -> Keys] : n \in 0..MaxKeys}

Op(op, key, value, items) == [op |-> op, key |-> key, value |-> value, items |-> items]

MapOps == {"add", "remove", "fromArray"}

SetOps == {"setAdd", "setAddAll", "setRemove", "setFromArray"}

Elements == {K1, K33, KMinus1}

MaxElements == 2

ElementLists == UNION {[1..n -> Elements] : n \in 0..MaxElements}

MaxQueue == 3

NoCall == [op |-> "new", result |-> JSUndefined, expected |-> JSUndefined,
           wasEmpty |-> TRUE, error |-> "",
           before |-> createQueueData(<<>>, <<>>), self |-> createQueueData(<<>>, <<>>)]

\* Hasher.hash was not called yet; after the call the status is "returned",
\* with the number returned, or "threw"
NotHashed == [status |-> "idle", value |-> JSInt(0)]

ObjectName == <<79, 98, 106, 101, 99, 116>>

\* the values handed to Hasher.hash: numbers (negative, halves, NaN and
\* numbers from 2^32 on among them), strings, a function, a bigint, a symbol,
\* arrays, objects, booleans, null and undefined
HashInputs ==
  {JSNumber(JSNum(hi, lo, fr)) :
     hi \in {-Limb, -1, 0, 1, Limb - 1, Limb}, lo \in {0, 1, Limb - 1}, fr \in {0, 1}}
    \cup
  {JSNumber(JSNaN), JSBoolean(TRUE), JSBoolean(FALSE), JSNull, JSUndefined,
   JSString(<<>>), JSString(<<97>>), JSString(<<97, 98>>),
   JSString(<<107, 101, 121>>), JSString(<<97, 98, 99, 100>>),
   JSString(<<233>>), JSString(<<26085, 26412, 35486>>), JSString(<<128512>>),
   JSString([i \in 1..16 |-> 96 + i]), JSString([i \in 1..21 |-> 96 + i]),
   JSFunction(<<40, 41, 32, 61, 62, 32, 49>>), JSBigInt(<<49, 48>>),
   JSSymbol(<<83, 121, 109, 98, 111, 108, 40, 97, 41>>),
   JSArray(<<>>), JSArray(<<K1>>), JSArray(<<K1, K33>>),
   JSArray(<<JSString(<<97>>)>>),
   JSArray(<<KMinus1, JSNumber(JSNaN), JSNumber(JSNum(1, 0, 1))>>),
   JSArray(<<JSArray(<<K1>>), JSString(<<97>>)>>),
   JSArray(<<JSNull, JSUndefined>>),
   JSArray(<<JSSymbol(<<83, 121, 109, 98, 111, 108, 40, 41>>)>>),
   JSArray(<<JSBareObject(<<>>)>>),
   JSObject(ObjectName, <<>>),
   JSObject(ObjectName, <<<<<<97>>, K1>>>>),
   JSObject(ObjectName, <<<<<<97>>, JSString(<<120>>)>>, <<<<98>>, JSArray(<<K1, K33>>)>>>>),
   JSObject(ObjectName, <<<<<<97>>, JSObject(ObjectName, <<>>)>>>>),
   JSObject(ObjectName, <<<<<<97>>, JSUndefined>>, <<<<98>>, JSNull>>>>),
   JSObject(<<68, 97, 116, 101>>, <<>>),
   JSObject(ObjectName, <<<<<<97>>, JSSymbol(<<83, 121, 109, 98, 111, 108, 40, 41>>)>>>>),
   JSObject(ObjectName, <<<<<<97>>, JSBareObject(<<>>)>>>>),
   JSBareObject(<<>>)}

InitCollections ==
  /\ map = Null
  /\ set = Null
  /\ before = Null
  /\ old = Null
  /\ ref = [k \in Keys |-> Missing]
  /\ sref = {}
  /\ used = {}
  /\ lastOp = NoOp

InitQueueEmpty ==
  /\ queue = Queue(<<>>)
  /\ qref = <<>>
  /\ qres = NoCall

InitHasherIdle ==
  /\ hashInput = JSUndefined
  /\ hashOutput = NotHashed

InitStackIdle ==
  /\ stack = Null
  /\ sres = [op |-> "new", args |-> <<>>, before |-> Null, result |-> JSUndefined, error |-> ""]

InitOptionalIdle ==
  /\ optional = empty
  /\ ores = [op |-> "new", args |-> <<>>, before |-> empty, result |-> JSUndefined, error |-> ""]

Writers == {1, 2}

InitWritersIdle ==
  /\ shared = Null
  /\ original = Null
  /\ writers = [w \in Writers |-> NoOp]
  /\ seen = [root |-> -1, view |-> <<>>]

Init ==
  /\ InitCollections
  /\ InitQueueEmpty
  /\ InitHasherIdle
  /\ InitWritersIdle
  /\ InitStackIdle
  /\ InitOptionalIdle

MapAddAction(key, value) ==
  /\ lastOp.op \in MapOps \cup {"new"}
  /\ before' = map
  /\ old' = MapAdd(map, key, value).self
  /\ map' = MapAdd(map, key, value).ret
  /\ ref' = [ref EXCEPT ![key] = value]
  /\ used' = used \cup {key}
  /\ lastOp' = Op("add", key, value, <<>>)
  /\ UNCHANGED <<set, sref>>
  /\ UNCHANGED <<queue, qref, qres, hashInput, hashOutput,
                 shared, original, writers, seen,
                 stack, sres,
                 optional, ores>>

MapRemoveAction(key) ==
  /\ lastOp.op \in MapOps \cup {"new"}
  /\ before' = map
  /\ old' = MapRemove(map, key).self
  /\ map' = MapRemove(map, key).ret
  /\ ref' = [ref EXCEPT ![key] = Missing]
  /\ used' = used \cup {key}
  /\ lastOp' = Op("remove", key, JSUndefined, <<>>)
  /\ UNCHANGED <<set, sref>>
  /\ UNCHANGED <<queue, qref, qres, hashInput, hashOutput,
                 shared, original, writers, seen,
                 stack, sres,
                 optional, ores>>

\* the static factory builds the program's first map
MapFromArrayAction(items) ==
  /\ lastOp.op = "new"
  /\ map' = MapFromArray(items)
  /\ before' = map'
  /\ old' = map'
  /\ ref' = RefFromArray([k \in Keys |-> Missing], items, 1)
  /\ used' = {items[i][1] : i \in 1..Len(items)}
  /\ lastOp' = Op("fromArray", JSUndefined, JSUndefined, items)
  /\ UNCHANGED <<set, sref>>
  /\ UNCHANGED <<queue, qref, qres, hashInput, hashOutput,
                 shared, original, writers, seen,
                 stack, sres,
                 optional, ores>>

SetAddAction(key) ==
  /\ lastOp.op \in SetOps \cup {"new"}
  /\ before' = set
  /\ old' = SetAdd(set, key).self
  /\ set' = SetAdd(set, key).ret
  /\ sref' = sref \cup {key}
  /\ used' = used \cup {key}
  /\ lastOp' = Op("setAdd", key, JSUndefined, <<>>)
  /\ UNCHANGED <<map, ref>>
  /\ UNCHANGED <<queue, qref, qres, hashInput, hashOutput,
                 shared, original, writers, seen,
                 stack, sres,
                 optional, ores>>

SetAddAllAction(keys) ==
  /\ lastOp.op \in SetOps \cup {"new"}
  /\ before' = set
  /\ old' = SetAddAll(set, keys).self
  /\ set' = SetAddAll(set, keys).ret
  /\ sref' = sref \cup {keys[i] : i \in 1..Len(keys)}
  /\ used' = used \cup {keys[i] : i \in 1..Len(keys)}
  /\ lastOp' = Op("setAddAll", JSUndefined, JSUndefined, keys)
  /\ UNCHANGED <<map, ref>>
  /\ UNCHANGED <<queue, qref, qres, hashInput, hashOutput,
                 shared, original, writers, seen,
                 stack, sres,
                 optional, ores>>

SetRemoveAction(key) ==
  /\ lastOp.op \in SetOps \cup {"new"}
  /\ before' = set
  /\ old' = SetRemove(set, key).self
  /\ set' = SetRemove(set, key).ret
  /\ sref' = sref \ {key}
  /\ used' = used \cup {key}
  /\ lastOp' = Op("setRemove", key, JSUndefined, <<>>)
  /\ UNCHANGED <<map, ref>>
  /\ UNCHANGED <<queue, qref, qres, hashInput, hashOutput,
                 shared, original, writers, seen,
                 stack, sres,
                 optional, ores>>

\* the static factory (fromArray, of) builds the program's first set
SetFromArrayAction(keys) ==
  /\ lastOp.op = "new"
  /\ set' = SetFromArray(keys)
  /\ before' = set'
  /\ old' = set'
  /\ sref' = {keys[i] : i \in 1..Len(keys)}
  /\ used' = {keys[i] : i \in 1..Len(keys)}
  /\ lastOp' = Op("setFromArray", JSUndefined, JSUndefined, keys)
  /\ UNCHANGED <<map, ref>>
  /\ UNCHANGED <<queue, qref, qres, hashInput, hashOutput,
                 shared, original, writers, seen,
                 stack, sres,
                 optional, ores>>

Next ==
  \/ \E key \in Keys, value \in Values : MapAddAction(key, value)
  \/ \E key \in Keys : MapRemoveAction(key)
  \/ \E items \in ItemLists : MapFromArrayAction(items)
  \/ \E key \in Keys : SetAddAction(key)
  \/ \E keys \in KeyLists : SetAddAllAction(keys)
  \/ \E key \in Keys : SetRemoveAction(key)
  \/ \E keys \in KeyLists : SetFromArrayAction(keys)

Spec == Init /\ [][Next]_vars

----------------------------------------------------------------------------
(* The program around a Queue: one handle, rebound to each returned queue. *)

InitQueue ==
  /\ InitCollections
  /\ InitHasherIdle
  /\ InitWritersIdle
  /\ InitStackIdle
  /\ InitOptionalIdle
  /\ \E elements \in ElementLists :
       /\ queue = Queue(elements)
       /\ qref = elements
  /\ qres = NoCall

QueueAddAction(element) ==
  /\ queue.size < MaxQueue
  /\ queue' = QueueAdd(queue, element).queue
  /\ qref' = Append(qref, element)
  /\ qres' = [op |-> "add", result |-> JSUndefined,
              expected |-> JSUndefined,
              wasEmpty |-> queue.size = 0, error |-> "",
              before |-> queue, self |-> QueueAdd(queue, element).self]
  /\ UNCHANGED <<map, set, before, old, ref, sref, used, lastOp, hashInput, hashOutput,
                 shared, original, writers, seen,
                 stack, sres,
                 optional, ores>>

QueueOfferAction(element) ==
  /\ queue.size < MaxQueue
  /\ queue' = QueueOffer(queue, element).queue
  /\ qref' = Append(qref, element)
  /\ qres' = [op |-> "offer", result |-> JSUndefined,
              expected |-> JSUndefined,
              wasEmpty |-> queue.size = 0, error |-> "",
              before |-> queue, self |-> QueueOffer(queue, element).self]
  /\ UNCHANGED <<map, set, before, old, ref, sref, used, lastOp, hashInput, hashOutput,
                 shared, original, writers, seen,
                 stack, sres,
                 optional, ores>>

QueueAddAllAction(elements) ==
  /\ queue.size + Len(elements) <= MaxQueue
  /\ queue' = QueueAddAll(queue, elements).queue
  /\ qref' = qref \o elements
  /\ qres' = [op |-> "addAll", result |-> JSUndefined,
              expected |-> JSUndefined,
              wasEmpty |-> queue.size = 0, error |-> "",
              before |-> queue, self |-> QueueAddAll(queue, elements).self]
  /\ UNCHANGED <<map, set, before, old, ref, sref, used, lastOp, hashInput, hashOutput,
                 shared, original, writers, seen,
                 stack, sres,
                 optional, ores>>

QueueRemoveAction ==
  /\ queue' = QueueRemove(queue).queue
  /\ qref' = IF qref = <<>> THEN qref ELSE Tail(qref)
  /\ qres' = [op |-> "remove", result |-> QueueRemove(queue).threw,
              expected |-> qref = <<>>,
              wasEmpty |-> queue.size = 0, error |-> QueueRemove(queue).error,
              before |-> queue, self |-> QueueRemove(queue).self]
  /\ UNCHANGED <<map, set, before, old, ref, sref, used, lastOp, hashInput, hashOutput,
                 shared, original, writers, seen,
                 stack, sres,
                 optional, ores>>

QueuePollAction ==
  /\ queue' = QueuePoll(queue).queue
  /\ qref' = IF qref = <<>> THEN qref ELSE Tail(qref)
  /\ qres' = [op |-> "poll", result |-> QueuePoll(queue).element,
              expected |-> IF qref = <<>> THEN Optional(JSUndefined) ELSE Optional(Head(qref)),
              wasEmpty |-> queue.size = 0, error |-> "",
              before |-> queue, self |-> QueuePoll(queue).self]
  /\ UNCHANGED <<map, set, before, old, ref, sref, used, lastOp, hashInput, hashOutput,
                 shared, original, writers, seen,
                 stack, sres,
                 optional, ores>>

QueueElementAction ==
  /\ queue' = queue
  /\ qref' = qref
  /\ qres' = [op |-> "element", result |-> [threw |-> QueueElement(queue).threw, value |-> QueueElement(queue).value],
              expected |-> IF qref = <<>> THEN [threw |-> TRUE, value |-> JSUndefined]
                           ELSE [threw |-> FALSE, value |-> Head(qref)],
              wasEmpty |-> queue.size = 0, error |-> QueueElement(queue).error,
              before |-> queue, self |-> QueueElement(queue).self]
  /\ UNCHANGED <<map, set, before, old, ref, sref, used, lastOp, hashInput, hashOutput,
                 shared, original, writers, seen,
                 stack, sres,
                 optional, ores>>

QueueElementOptionAction ==
  /\ queue' = queue
  /\ qref' = qref
  /\ qres' = [op |-> "elementOption", result |-> QueueElementOption(queue).element,
              expected |-> IF qref = <<>> THEN Optional(JSUndefined) ELSE Optional(Head(qref)),
              wasEmpty |-> queue.size = 0, error |-> "",
              before |-> queue, self |-> QueueElementOption(queue).self]
  /\ UNCHANGED <<map, set, before, old, ref, sref, used, lastOp, hashInput, hashOutput,
                 shared, original, writers, seen,
                 stack, sres,
                 optional, ores>>

QueuePeekAction ==
  /\ queue' = queue
  /\ qref' = qref
  /\ qres' = [op |-> "peek", result |-> QueuePeek(queue).element,
              expected |-> IF qref = <<>> THEN Optional(JSUndefined) ELSE Optional(Head(qref)),
              wasEmpty |-> queue.size = 0, error |-> "",
              before |-> queue, self |-> QueuePeek(queue).self]
  /\ UNCHANGED <<map, set, before, old, ref, sref, used, lastOp, hashInput, hashOutput,
                 shared, original, writers, seen,
                 stack, sres,
                 optional, ores>>

QueueClearAction ==
  /\ queue' = QueueClear(queue).queue
  /\ qref' = <<>>
  /\ qres' = [op |-> "clear", result |-> JSUndefined,
              expected |-> JSUndefined,
              wasEmpty |-> queue.size = 0, error |-> "",
              before |-> queue, self |-> QueueClear(queue).self]
  /\ UNCHANGED <<map, set, before, old, ref, sref, used, lastOp, hashInput, hashOutput,
                 shared, original, writers, seen,
                 stack, sres,
                 optional, ores>>

QueueMapAction(mapper) ==
  /\ queue' = QueueMap(queue, mapper).queue
  /\ qref' = ArrayMap(qref, mapper)
  /\ qres' = [op |-> "map", result |-> JSUndefined,
              expected |-> JSUndefined,
              wasEmpty |-> queue.size = 0, error |-> "",
              before |-> queue, self |-> QueueMap(queue, mapper).self]
  /\ UNCHANGED <<map, set, before, old, ref, sref, used, lastOp, hashInput, hashOutput,
                 shared, original, writers, seen,
                 stack, sres,
                 optional, ores>>

QueueFilterAction(predicate) ==
  /\ queue' = QueueFilter(queue, predicate).queue
  /\ qref' = ArrayFilter(qref, predicate)
  /\ qres' = [op |-> "filter", result |-> JSUndefined,
              expected |-> JSUndefined,
              wasEmpty |-> queue.size = 0, error |-> "",
              before |-> queue, self |-> QueueFilter(queue, predicate).self]
  /\ UNCHANGED <<map, set, before, old, ref, sref, used, lastOp, hashInput, hashOutput,
                 shared, original, writers, seen,
                 stack, sres,
                 optional, ores>>

NextQueue ==
  \/ \E element \in Elements : QueueAddAction(element)
  \/ \E element \in Elements : QueueOfferAction(element)
  \/ \E elements \in ElementLists : QueueAddAllAction(elements)
  \/ QueueRemoveAction
  \/ QueuePollAction
  \/ QueueElementAction
  \/ QueueElementOptionAction
  \/ QueuePeekAction
  \/ QueueClearAction
  \/ \E mapper \in {[e \in Elements |-> K1],
                      [e \in Elements |-> IF e = K1 THEN K33 ELSE K1]} :
       QueueMapAction(mapper)
  \/ \E predicate \in {{K1}, {K33, KMinus1}} : QueueFilterAction(predicate)

SpecQueue == InitQueue /\ [][NextQueue]_vars

----------------------------------------------------------------------------
(* The program around a Hasher: it hashes one value. *)

InitHash ==
  /\ InitCollections
  /\ InitQueueEmpty
  /\ InitWritersIdle
  /\ InitStackIdle
  /\ InitOptionalIdle
  /\ hashInput \in HashInputs
  /\ hashOutput = NotHashed

HashAction ==
  /\ hashOutput = NotHashed
  /\ hashOutput' = IF HasherThrows(hashInput)
                   THEN [status |-> "threw", value |-> JSInt(0)]
                   ELSE [status |-> "returned", value |-> HasherHash(hashInput)]
  /\ UNCHANGED <<map, set, before, old, ref, sref, used, lastOp,
                 queue, qref, qres, hashInput,
                 shared, original, writers, seen,
                 stack, sres,
                 optional, ores>>

NextHash == HashAction

SpecHash == InitHash /\ [][NextHash]_vars


----------------------------------------------------------------------------
(* The program around a Stack: one handle, rebound to each returned stack; *)
(* a call that throws leaves the handle as it was.                         *)

MaxStack == 4

InitStack ==
  /\ InitCollections
  /\ InitOptionalIdle
  /\ InitQueueEmpty
  /\ InitHasherIdle
  /\ InitWritersIdle
  /\ \E elements \in ElementLists :
       /\ stack = Stack(elements)
       /\ sres = [op |-> "new", args |-> elements, before |-> Null,
                  result |-> JSUndefined, error |-> ""]

StackPushAction(element) ==
  /\ StackSize(stack) < MaxStack
  /\ stack' = StackPush(stack, element)
  /\ sres' = [op |-> "push", args |-> <<element>>, before |-> stack,
              result |-> JSUndefined, error |-> ""]
  /\ UNCHANGED <<map, set, before, old, ref, sref, used, lastOp,
                 queue, qref, qres, hashInput, hashOutput,
                 shared, original, writers, seen,
                 optional, ores>>

StackPushAllAction(elements) ==
  /\ StackSize(stack) + Len(elements) <= MaxStack
  /\ stack' = StackPushAll(stack, elements)
  /\ sres' = [op |-> "pushAll", args |-> elements, before |-> stack,
              result |-> JSUndefined, error |-> ""]
  /\ UNCHANGED <<map, set, before, old, ref, sref, used, lastOp,
                 queue, qref, qres, hashInput, hashOutput,
                 shared, original, writers, seen,
                 optional, ores>>

StackPopAction ==
  /\ stack' = StackPop(stack).stack
  /\ sres' = [op |-> "pop", args |-> <<>>, before |-> stack,
              result |-> JSUndefined, error |-> StackPop(stack).error]
  /\ UNCHANGED <<map, set, before, old, ref, sref, used, lastOp,
                 queue, qref, qres, hashInput, hashOutput,
                 shared, original, writers, seen,
                 optional, ores>>

StackPeekAction ==
  /\ stack' = stack
  /\ sres' = [op |-> "peek", args |-> <<>>, before |-> stack,
              result |-> StackPeek(stack).value, error |-> StackPeek(stack).error]
  /\ UNCHANGED <<map, set, before, old, ref, sref, used, lastOp,
                 queue, qref, qres, hashInput, hashOutput,
                 shared, original, writers, seen,
                 optional, ores>>

StackPeekOptionAction ==
  /\ stack' = stack
  /\ sres' = [op |-> "peekOption", args |-> <<>>, before |-> stack,
              result |-> StackPeekOption(stack), error |-> ""]
  /\ UNCHANGED <<map, set, before, old, ref, sref, used, lastOp,
                 queue, qref, qres, hashInput, hashOutput,
                 shared, original, writers, seen,
                 optional, ores>>

StackSafePopAction ==
  /\ stack' = StackSafePop(stack).stack
  /\ sres' = [op |-> "safePop", args |-> <<>>, before |-> stack,
              result |-> StackSafePop(stack).element, error |-> ""]
  /\ UNCHANGED <<map, set, before, old, ref, sref, used, lastOp,
                 queue, qref, qres, hashInput, hashOutput,
                 shared, original, writers, seen,
                 optional, ores>>

StackSafePeekAction ==
  /\ stack' = stack
  /\ sres' = [op |-> "safePeek", args |-> <<>>, before |-> stack,
              result |-> StackSafePeek(stack), error |-> ""]
  /\ UNCHANGED <<map, set, before, old, ref, sref, used, lastOp,
                 queue, qref, qres, hashInput, hashOutput,
                 shared, original, writers, seen,
                 optional, ores>>

NextStack ==
  \/ \E element \in Elements : StackPushAction(element)
  \/ \E elements \in ElementLists : StackPushAllAction(elements)
  \/ StackPopAction
  \/ StackPeekAction
  \/ StackPeekOptionAction
  \/ StackSafePopAction
  \/ StackSafePeekAction

SpecStack == InitStack /\ [][NextStack]_vars

----------------------------------------------------------------------------
(* The program around an Optional: it builds one with Optional(value),     *)
(* nullable(value) or empty() and calls its methods; map rebinds the       *)
(* handle to the Optional returned.                                        *)

OptionalValues ==
  {JSUndefined, JSNull, JSBoolean(FALSE), JSNumber(JSInt(0)), JSNumber(JSNaN),
   JSString(<<>>), K1}

Callbacks ==
  {[v \in OptionalValues |-> v], [v \in OptionalValues |-> JSUndefined],
   [v \in OptionalValues |-> IF v = K1 THEN JSNull ELSE K1]}

InitOptional ==
  /\ InitCollections
  /\ InitQueueEmpty
  /\ InitHasherIdle
  /\ InitWritersIdle
  /\ InitStackIdle
  /\ \E value \in OptionalValues :
       \/ /\ optional = Optional(value)
          /\ ores = [op |-> "Optional", args |-> <<value>>, before |-> empty,
                     result |-> JSUndefined, error |-> ""]
       \/ /\ optional = nullable(value)
          /\ ores = [op |-> "nullable", args |-> <<value>>, before |-> empty,
                     result |-> JSUndefined, error |-> ""]
       \/ /\ optional = empty
          /\ ores = [op |-> "empty", args |-> <<>>, before |-> empty,
                     result |-> JSUndefined, error |-> ""]

OptionalGetAction ==
  /\ optional' = optional
  /\ ores' = [op |-> "get", args |-> <<>>, before |-> optional,
              result |-> OptionalGet(optional).value, error |-> OptionalGet(optional).error]
  /\ UNCHANGED <<map, set, before, old, ref, sref, used, lastOp,
                 queue, qref, qres, hashInput, hashOutput,
                 shared, original, writers, seen, stack, sres>>

OptionalIfPresentAction(callback) ==
  /\ optional' = optional
  /\ ores' = [op |-> "ifPresent", args |-> <<callback>>, before |-> optional,
              result |-> OptionalIfPresent(optional, callback).value, error |-> OptionalIfPresent(optional, callback).error]
  /\ UNCHANGED <<map, set, before, old, ref, sref, used, lastOp,
                 queue, qref, qres, hashInput, hashOutput,
                 shared, original, writers, seen, stack, sres>>

OptionalIfPresentOrElseAction(ifPresent, ifNotPresent) ==
  /\ optional' = optional
  /\ ores' = [op |-> "ifPresentOrElse", args |-> <<ifPresent, ifNotPresent>>, before |-> optional,
              result |-> OptionalIfPresentOrElse(optional, ifPresent, ifNotPresent).value, error |-> OptionalIfPresentOrElse(optional, ifPresent, ifNotPresent).error]
  /\ UNCHANGED <<map, set, before, old, ref, sref, used, lastOp,
                 queue, qref, qres, hashInput, hashOutput,
                 shared, original, writers, seen, stack, sres>>

OptionalOrElseAction(alternative) ==
  /\ optional' = optional
  /\ ores' = [op |-> "orElse", args |-> <<alternative>>, before |-> optional,
              result |-> OptionalOrElse(optional, alternative).value, error |-> OptionalOrElse(optional, alternative).error]
  /\ UNCHANGED <<map, set, before, old, ref, sref, used, lastOp,
                 queue, qref, qres, hashInput, hashOutput,
                 shared, original, writers, seen, stack, sres>>

OptionalOrElseGetAction(supplier) ==
  /\ optional' = optional
  /\ ores' = [op |-> "orElseGet", args |-> <<supplier>>, before |-> optional,
              result |-> OptionalOrElseGet(optional, supplier).value, error |-> OptionalOrElseGet(optional, supplier).error]
  /\ UNCHANGED <<map, set, before, old, ref, sref, used, lastOp,
                 queue, qref, qres, hashInput, hashOutput,
                 shared, original, writers, seen, stack, sres>>

OptionalOrElseThrowAction(error) ==
  /\ optional' = optional
  /\ ores' = [op |-> "orElseThrow", args |-> <<error>>, before |-> optional,
              result |-> OptionalOrElseThrow(optional, error).value, error |-> OptionalOrElseThrow(optional, error).error]
  /\ UNCHANGED <<map, set, before, old, ref, sref, used, lastOp,
                 queue, qref, qres, hashInput, hashOutput,
                 shared, original, writers, seen, stack, sres>>

OptionalMapAction(mapper) ==
  /\ optional' = OptionalMap(optional, mapper).value
  /\ ores' = [op |-> "map", args |-> <<mapper>>, before |-> optional,
              result |-> OptionalMap(optional, mapper).value, error |-> OptionalMap(optional, mapper).error]
  /\ UNCHANGED <<map, set, before, old, ref, sref, used, lastOp,
                 queue, qref, qres, hashInput, hashOutput,
                 shared, original, writers, seen, stack, sres>>

NextOptional ==
  \/ OptionalGetAction
  \/ \E callback \in Callbacks : OptionalIfPresentAction(callback)
  \/ \E ifPresent \in Callbacks, ifNotPresent \in {JSUndefined, K1} :
       OptionalIfPresentOrElseAction(ifPresent, ifNotPresent)
  \/ \E alternative \in OptionalValues : OptionalOrElseAction(alternative)
  \/ \E supplier \in OptionalValues : OptionalOrElseGetAction(supplier)
  \/ \E error \in {"", "RangeError"} : OptionalOrElseThrowAction(error)
  \/ \E mapper \in Callbacks : OptionalMapAction(mapper)

SpecOptional == InitOptional /\ [][NextOptional]_vars

----------------------------------------------------------------------------
(* The program around a map whose keys are numbers that Hasher.hash        *)
(* returns as they are: 1, 1.5, 2^30 + 1 and 2^32 + 1.  A call whose split *)
(* recursion runs past the last shift does not return a node; the program  *)
(* makes no further call after it.                                         *)

DeepKeys ==
  {K1, JSNumber(JSNum(0, 1, 1)), JSNumber(JSNum(Limb \div 4, 1, 0)),
   JSNumber(JSNum(Limb, 1, 0))}

\* the call that built this node ran out of hash bits
RECURSIVE Exhausts(_)
Exhausts(node) ==
  \/ node = Exhausted
  \/ /\ node.kind = "bitmap"
     /\ \E i \in 1..Len(node.children) : Exhausts(node.children[i])

InitDeep ==
  /\ map = Null
  /\ set = Null
  /\ before = Null
  /\ old = Null
  /\ ref = [k \in DeepKeys |-> Missing]
  /\ sref = {}
  /\ used = {}
  /\ lastOp = NoOp
  /\ InitQueueEmpty
  /\ InitHasherIdle
  /\ InitWritersIdle
  /\ InitStackIdle
  /\ InitOptionalIdle

NextDeep ==
  \/ \E key \in DeepKeys, value \in Values : ~Exhausts(map) /\ MapAddAction(key, value)
  \/ \E key \in DeepKeys : ~Exhausts(map) /\ MapRemoveAction(key)

SpecDeep == InitDeep /\ [][NextDeep]_vars

----------------------------------------------------------------------------
(* A program that adds and removes small integer keys in every order: 0, 3 *)
(* and 31 differ in the digit at shift 0; 35 shares that digit with 3 and  *)
(* differs from it at shift 5.                                             *)

OrderKeys ==
  {JSNumber(JSInt(0)), JSNumber(JSInt(3)), JSNumber(JSInt(31)), JSNumber(JSInt(35))}

InitOrder ==
  /\ map = Null
  /\ set = Null
  /\ before = Null
  /\ old = Null
  /\ ref = [k \in OrderKeys |-> Missing]
  /\ sref = {}
  /\ used = {}
  /\ lastOp = NoOp
  /\ InitQueueEmpty
  /\ InitHasherIdle
  /\ InitWritersIdle
  /\ InitStackIdle
  /\ InitOptionalIdle

NextOrder ==
  \/ \E key \in OrderKeys, value \in Values : MapAddAction(key, value)
  \/ \E key \in OrderKeys : MapRemoveAction(key)

SpecOrder == InitOrder /\ [][NextOrder]_vars

----------------------------------------------------------------------------
(* What a caller can see of a collection *)

ObserveMap(root) ==
  [toArray |-> MapToArray(root),
   size |-> MapSize(root),
   get |-> [k \in Keys |-> MapGet(root, k)],
   contains |-> [k \in Keys |-> MapContains(root, k)]]

ObserveSet(root) ==
  [toArray |-> SetToArray(root),
   size |-> SetSize(root),
   contains |-> [k \in Keys |-> SetContains(root, k)]]

HashesDistinct(keys) ==
  \A a \in keys, b \in keys : a # b => HasherHash(a) # HasherHash(b)

Present == {k \in Keys : ref[k] # Missing}

----------------------------------------------------------------------------
(* Two writers and a reader around one shared map handle.  A method call  *)
(* runs to completion, so the calls interleave as whole calls; each writer *)
(* calls add or remove once on the shared handle and keeps what the call   *)
(* returned, lastOp.items holding the root returned to it.                 *)

InitWriters ==
  /\ InitCollections
  /\ InitStackIdle
  /\ InitOptionalIdle
  /\ InitQueueEmpty
  /\ InitHasherIdle
  /\ \E items \in UNION {[1..n -> Keys \X {JSString(<<97>>)}] : n \in 0..MaxKeys} :
       /\ shared = MapFromArray(items)
       /\ original = MapFromArray(items)
  /\ writers = [w \in Writers |-> NoOp]
  /\ seen = [root |-> -1, view |-> <<>>]

WriterAddAction(w, key, value) ==
  /\ writers[w].op = "new"
  /\ shared' = MapAdd(shared, key, value).self
  /\ writers' = [writers EXCEPT ![w] = Op("add", key, value, MapAdd(shared, key, value).ret)]
  /\ UNCHANGED <<original, seen>>
  /\ UNCHANGED <<map, set, before, old, ref, sref, used, lastOp,
                 queue, qref, qres, hashInput, hashOutput,
                 stack, sres,
                 optional, ores>>

WriterRemoveAction(w, key) ==
  /\ writers[w].op = "new"
  /\ shared' = MapRemove(shared, key).self
  /\ writers' = [writers EXCEPT ![w] = Op("remove", key, JSUndefined, MapRemove(shared, key).ret)]
  /\ UNCHANGED <<original, seen>>
  /\ UNCHANGED <<map, set, before, old, ref, sref, used, lastOp,
                 queue, qref, qres, hashInput, hashOutput,
                 stack, sres,
                 optional, ores>>

\* the reader traverses the shared map (root 0) or the map returned to a writer
ReaderAction(root) ==
  /\ root \in Writers => writers[root].op # "new"
  /\ seen' = [root |-> root,
              view |-> ObserveMap(IF root = 0 THEN shared ELSE writers[root].items)]
  /\ UNCHANGED <<shared, original, writers>>
  /\ UNCHANGED <<map, set, before, old, ref, sref, used, lastOp,
                 queue, qref, qres, hashInput, hashOutput,
                 stack, sres,
                 optional, ores>>

NextWriters ==
  \/ \E w \in Writers, key \in Keys, value \in Values : WriterAddAction(w, key, value)
  \/ \E w \in Writers, key \in Keys : WriterRemoveAction(w, key)
  \/ \E root \in {0} \cup Writers : ReaderAction(root)

SpecWriters == InitWriters /\ [][NextWriters]_vars

----------------------------------------------------------------------------
\* C1: add and remove of ImmutableMap and add, addAll and remove of
\* ImmutableSet leave the receiver as it was: its toArray(), size(), and get /
\* contains of every key are the same after the call as before it, and the
\* change shows in the returned collection (the added key is found there with
\* its value, the removed key is not found there).
ReceiverUnchanged ==
  /\ lastOp.op \in {"add", "remove"} => ObserveMap(old) = ObserveMap(before)
  /\ lastOp.op = "add" =>
       MapContains(map, lastOp.key) /\ MapGet(map, lastOp.key) = Optional(lastOp.value)
  /\ lastOp.op = "remove" => ~MapContains(map, lastOp.key)
  /\ lastOp.op \in {"setAdd", "setAddAll", "setRemove"} =>
       ObserveSet(old) = ObserveSet(before)
  /\ lastOp.op = "setAdd" => SetContains(set, lastOp.key)
  /\ lastOp.op = "setRemove" => ~SetContains(set, lastOp.key)

\* a key that a two-level map did not hold was added: the returned map differs
ReceiverUnchangedWitness ==
  /\ lastOp.op = "add"
  /\ before.kind = "bitmap"
  /\ ~MapContains(before, lastOp.key)
  /\ MapSize(map) = MapSize(before) + 1
  /\ ObserveMap(old) = ObserveMap(before)

ItemKeys(items) == {items[i][1] : i \in 1..Len(items)}

\* the value of the last item with key k
LastValue(items, k) ==
  items[CHOOSE i \in 1..Len(items) :
          /\ items[i][1] = k
          /\ \A j \in (i + 1)..Len(items) : items[j][1] # k][2]

RECURSIVE NoEmptyNode(_)
NoEmptyNode(node) ==
  node.kind = "bitmap" =>
    /\ Len(node.children) > 0
    /\ \A i \in 1..Len(node.children) : NoEmptyNode(node.children[i])

----------------------------------------------------------------------------
\* C3: last write wins on hash collision: when add(k2, v2) is called on a map
\* that holds a pair under a different key k1 with the same hash, size() stays
\* the same, get(k1) and get(k2) both return Optional(v2), and toArray() holds
\* [k2, v2] in the place of the pair of k1.
CollisionLastWriteWins ==
  lastOp.op = "add" =>
    \A i \in 1..MapSize(before) :
      LET e == MapToArray(before)[i]
      IN  (e[1] # lastOp.key /\ HasherHash(e[1]) = HasherHash(lastOp.key)) =>
            /\ MapSize(map) = MapSize(before)
            /\ MapGet(map, e[1]) = Optional(lastOp.value)
            /\ MapGet(map, lastOp.key) = Optional(lastOp.value)
            /\ MapToArray(map) =
                 [MapToArray(before) EXCEPT ![i] = <<lastOp.key, lastOp.value>>]

\* true was added with another value to a map of two pairs that held the key 1
CollisionLastWriteWinsWitness ==
  /\ lastOp.op = "add"
  /\ lastOp.key = KTrue
  /\ MapSize(before) = 2
  /\ \E i \in 1..2 : MapToArray(before)[i][1] = K1
                     /\ MapToArray(before)[i][2] # lastOp.value
  /\ \E i \in 1..2 : MapToArray(map)[i] = <<KTrue, lastOp.value>>
  /\ \A i \in 1..2 : MapToArray(map)[i][1] # K1

RemoveIdempotent ==
  /\ (lastOp.op = "remove" /\ ~MapContains(before, lastOp.key)) =>
       ObserveMap(map) = ObserveMap(before)
  /\ lastOp.op = "remove" =>
       ObserveMap(MapRemove(map, lastOp.key).ret) = ObserveMap(map)
  /\ (lastOp.op = "setRemove" /\ ~SetContains(before, lastOp.key)) =>
       ObserveSet(set) = ObserveSet(before)
  /\ lastOp.op = "setRemove" =>
       ObserveSet(SetRemove(set, lastOp.key).ret) = ObserveSet(set)

\* 33 was removed from a map of two pairs that holds 1 (same first digit) and
\* does not hold 33
RemoveIdempotentWitness ==
  /\ lastOp.op = "remove"
  /\ lastOp.key = K33
  /\ before.kind = "bitmap"
  /\ MapSize(before) = 2
  /\ MapContains(before, K1)
  /\ ~MapContains(before, K33)
  /\ MapToArray(map) = MapToArray(before)

\* C6: every remove on a populated map returns a map in which no
\* BitmapIndexed node without children is reachable from the root, and whose
\* root is null when no pair is left: a node that loses its last child is
\* dropped by its parent.
HeightCollapse ==
  (lastOp.op = "remove" /\ MapSize(before) > 0) =>
    /\ NoEmptyNode(map)
    /\ (MapSize(map) = 0 => map = Null)

\* the last pair, two levels below the root, was removed: the chain of
\* single-child nodes above it is gone
HeightCollapseWitness ==
  /\ lastOp.op = "remove"
  /\ before.kind = "bitmap"
  /\ Len(before.children) = 1
  /\ before.children[1].kind = "bitmap"
  /\ MapSize(before) = 1
  /\ map = Null

SameEntries(a, b) ==
  /\ MapSize(a) = MapSize(b)
  /\ \A i \in 1..MapSize(a) :
       LET e == MapToArray(a)[i]
       IN  /\ MapContains(b, e[1])
           /\ StrictEq(e[2], MapGet(b, e[1]).value)

\* the maps the current map is compared with: itself, the receiver of the
\* last call, and the map built from the same entries in reverse order
Comparisons ==
  {map, before} \cup
    (IF lastOp.op = "fromArray" THEN {MapFromArray(Reverse(lastOp.items))} ELSE {})

\* C8: a.equals(b) with the default comparison is true exactly when a and b
\* have the same size and every key of a is present in b with an identical
\* value, and false otherwise, in whatever order the two maps were built.
EqualsIsSetEquality ==
  lastOp.op \in MapOps =>
    \A b \in Comparisons :
      MapEquals(map, b) = (IF SameEntries(map, b) THEN "true" ELSE "false")

\* C9: the Queue is FIFO: after any add / offer / addAll / remove / poll calls
\* on any Queue, element(), peek() and poll().element give the element added
\* earliest among those not yet removed, remove() and poll() take out exactly
\* that element, and toArray() lists the rest in the order they were added.
QueueIsFIFO ==
  /\ QueueToArray(queue) = qref
  /\ qres.result = qres.expected

\* C10: Hasher.hash is total and returns a 32-bit unsigned integer: for every
\* value (string, any number, boolean, null, undefined, function, symbol,
\* bigint, array, record) the call returns without throwing, and what it
\* returns is an integer in [0, 2^32).
HashIsTotalUint32 ==
  hashOutput # NotHashed =>
    /\ hashOutput.status = "returned"
    /\ IsUint32(hashOutput.value)

\* C11: hash consistency: for every pair of values that are the same by value
\* Hasher().hash returns the same number for both, on every call.  A value of
\* the model carries no identity, so the values that are the same by value as
\* hashInput are the values equal to it; the call made is compared with every
\* other call on such a value.
HashIsConsistent ==
  hashOutput # NotHashed =>
    \A other \in {v \in HashInputs : v = hashInput} :
      /\ hashOutput.status = "returned"
      /\ ~HasherThrows(other)
      /\ HasherHash(other) = hashOutput.value

\* C12: two writers that each call add or remove once on the same shared map,
\* in any interleaving, do not disturb one another: the shared map stays as
\* it was built, the map returned to each writer is the map as it was built
\* with that writer's one call applied, and a reader that traverses the shared
\* map or a returned map sees that whole map: every pair its toArray() lists
\* is found by contains.
WritersIsolated ==
  /\ shared = original
  /\ \A w \in Writers :
       /\ writers[w].op = "add" =>
            writers[w].items = MapAdd(original, writers[w].key, writers[w].value).ret
       /\ writers[w].op = "remove" =>
            writers[w].items = MapRemove(original, writers[w].key).ret
  /\ seen.root >= 0 =>
       /\ seen.view = ObserveMap(IF seen.root = 0 THEN original ELSE writers[seen.root].items)
       /\ \A i \in 1..seen.view.size : seen.view.contains[seen.view.toArray[i][1]]

\* one writer added a key and the other removed one from a two-level map, both
\* changed it, and the reader traversed the map returned to the second writer
WritersIsolatedWitness ==
  /\ writers[1].op = "add"
  /\ writers[2].op = "remove"
  /\ original.kind = "bitmap"
  /\ writers[1].items # original
  /\ writers[2].items # original
  /\ writers[2].items # Null
  /\ seen.root = 2

\* C13: outcomes on an empty Queue: remove() and element() throw
\* NoSuchElementException with the message 'Queue is empty'; poll(), peek() and
\* elementOption() return an empty Optional and do not throw, poll() together
\* with an empty queue; on a Queue that is not empty none of the five throws.
QueueEmptyOutcomes ==
  /\ qres.op \in {"remove", "element"} =>
       qres.error = (IF qres.wasEmpty THEN "NoSuchElementException: Queue is empty" ELSE "")
  /\ qres.op = "remove" => qres.result = qres.wasEmpty
  /\ qres.op = "element" => qres.result.threw = qres.wasEmpty
  /\ qres.op \in {"poll", "peek", "elementOption"} =>
       /\ qres.error = ""
       /\ qres.wasEmpty => ~qres.result.isPresent
  /\ qres.op = "poll" /\ qres.wasEmpty => queue.size = 0 /\ QueueToArray(queue) = <<>>

\* element() was called on an empty Queue and threw
QueueEmptyOutcomesWitness ==
  /\ qres.op = "element"
  /\ qres.wasEmpty
  /\ qres.result.threw
  /\ qres.error = "NoSuchElementException: Queue is empty"

\* C14: outcomes on an empty Stack: pop() and peek() throw EmptyStackException
\* with the message 'Stack is empty'; peekOption(), safePeek() and safePop()
\* return an empty Optional and do not throw; on a Stack that is not empty none
\* of the five throws.
StackEmptyOutcomes ==
  /\ sres.op \in {"pop", "peek"} =>
       sres.error = (IF sres.before = Null THEN "EmptyStackException: Stack is empty" ELSE "")
  /\ sres.op \in {"peekOption", "safePeek", "safePop"} =>
       /\ sres.error = ""
       /\ sres.before = Null => ~sres.result.isPresent
  /\ sres.op = "safePop" /\ sres.before = Null => StackToArray(stack) = <<>>

\* peek() was called on an empty Stack and threw
StackEmptyOutcomesWitness ==
  /\ sres.op = "peek"
  /\ sres.before = Null
  /\ sres.error = "EmptyStackException: Stack is empty"

\* C15: the Stack is LIFO: s.push(x).peek() is x, s.push(x).pop().toArray() is
\* s.toArray(), push makes size() one larger and pop one smaller, toArray()
\* lists the elements from the bottom to the top (Stack(elements).toArray() is
\* elements) and pushAll(a, b, ...) is push(a).push(b)...
StackIsLIFO ==
  /\ StackSize(stack) = Len(StackToArray(stack))
  /\ sres.op = "new" => StackToArray(stack) = sres.args
  /\ sres.op = "push" =>
       /\ StackPeek(stack) = [error |-> "", value |-> sres.args[1]]
       /\ StackPop(stack).error = ""
       /\ StackToArray(StackPop(stack).stack) = StackToArray(sres.before)
       /\ StackToArray(stack) = Append(StackToArray(sres.before), sres.args[1])
       /\ StackSize(stack) = StackSize(sres.before) + 1
  /\ sres.op = "pop" /\ sres.error = "" =>
       /\ StackSize(stack) = StackSize(sres.before) - 1
       /\ Append(StackToArray(stack), StackPeek(sres.before).value) = StackToArray(sres.before)
  /\ sres.op = "pushAll" =>
       /\ StackToArray(stack) = StackToArray(sres.before) \o sres.args
       /\ Len(sres.args) = 2 =>
            stack = StackPush(StackPush(sres.before, sres.args[1]), sres.args[2])

\* an element was pushed onto a stack that held two other elements
StackIsLIFOWitness ==
  /\ sres.op = "push"
  /\ StackSize(sres.before) = 2
  /\ sres.before.value # sres.args[1]
  /\ sres.before.next.value # sres.before.value
  /\ StackPeek(stack).value = sres.args[1]

\* C16: no Queue operation changes its receiver: after add, offer, addAll,
\* remove, poll, element, elementOption, peek, map, filter or clear, toArray()
\* and size() of the queue the call was made on are what they were before the
\* call, also when the call normalizes (moves the rear to the front).
QueueReceiverUnchanged ==
  /\ QueueToArray(qres.self) = QueueToArray(qres.before)
  /\ qres.self.size = qres.before.size

\* a call that normalized: the receiver held its elements in the rear only,
\* and remove returned a queue without one of them
QueueReceiverUnchangedWitness ==
  /\ qres.op = "remove"
  /\ qres.before.front = <<>>
  /\ Len(qres.before.rear) >= 2
  /\ qres.before.rear[1] # qres.before.rear[2]
  /\ queue.size = qres.before.size - 1
  /\ qres.self = qres.before

RECURSIVE LeafHashes(_)
LeafHashes(node) ==
  IF node.kind = "leaf" THEN {node.hash}
  ELSE UNION {LeafHashes(node.children[i]) : i \in 1..Len(node.children)}

\* the node at this shift and every node below it: as many children as bits in
\* the bitmap, the i-th child holding the leaves whose digit at this shift is
\* the i-th smallest bit
RECURSIVE ShapeHolds(_, _)
ShapeHolds(node, shift) ==
  node.kind = "bitmap" =>
    /\ Len(node.children) = Cardinality(node.bitmap)
    /\ \A d \in node.bitmap :
         /\ LeafHashes(node.children[BitmapIndex(node.bitmap, d) + 1]) # {}
         /\ \A hash \in LeafHashes(node.children[BitmapIndex(node.bitmap, d) + 1]) :
              Digit(hash, shift) = d
         /\ ShapeHolds(node.children[BitmapIndex(node.bitmap, d) + 1], shift + 5)

\* C18: trie shape: at every BitmapIndexed node of a map or set that
\* fromArray, add, addAll and remove produce, children.length is the number of
\* bits set in bitmap, the i-th child is the subtree of the i-th set bit in
\* ascending order, and every leaf below the child of bit d at depth L has
\* (hash >> 5L) & 0x1F = d.
TrieShape ==
  /\ ShapeHolds(map, 0)
  /\ ShapeHolds(set, 0)
  /\ ShapeHolds(old, 0)

\* a map of two levels: the root has two children and one of them is a
\* BitmapIndexed node with two leaves
TrieShapeWitness ==
  /\ lastOp.op \in {"add", "remove"}
  /\ map.kind = "bitmap"
  /\ Len(map.children) = 2
  /\ \E i \in 1..2 : map.children[i].kind = "bitmap" /\ Len(map.children[i].children) = 2

\* C19: the empty collection is always a null root: every map or set with
\* size() = 0 that the constructors (fromArray([]), of(), addAll() with no keys)
\* and any sequence of add and remove produce has root === null, so no facade
\* holds a BitmapIndexed node without children.
EmptyIsNull ==
  /\ MapSize(map) = 0 => map = Null
  /\ SetSize(set) = 0 => set = Null

\* the number of levels of a trie
RECURSIVE Levels(_)
Levels(node) ==
  IF node.kind # "bitmap" \/ node.children = <<>> THEN 0
  ELSE LET below == {Levels(node.children[i]) : i \in 1..Len(node.children)}
       IN  1 + CHOOSE deepest \in below : \A other \in below : other <= deepest

\* C20: every add terminates within 7 trie levels (shift 0, 5, ..., 30): for
\* any two distinct hashes that the hasher produces, the split recursion of
\* the leaf reaches a level at which their 5-bit digits differ, so no trie is
\* deeper than 7 levels and no call recurses without bound.
SplitTerminates ==
  /\ ~Exhausts(map)
  /\ Levels(map) <= 7

\* C21: a leaf split keeps both pairs: add of a hash h2 onto a leaf with
\* another hash h1 returns a BitmapIndexed node on which get(h1) returns the
\* old value and get(h2) the new one, with one single-child level for each
\* level at which the two hashes have the same 5-bit digit.
LeafSplitKeepsBoth ==
  (/\ lastOp.op = "add"
   /\ before.kind = "leaf"
   /\ ~StrictEqNum(HasherHash(lastOp.key), before.hash)) =>
    /\ map.kind = "bitmap"
    /\ NodeGet(map, before.hash, 0) = before.value
    /\ NodeGet(map, HasherHash(lastOp.key), 0) = lastOp.value
    /\ Levels(map) = 1 + Cardinality({level \in 0..6 : \A above \in 0..level :
                          Digit(before.hash, 5 * above)
                            = Digit(HasherHash(lastOp.key), 5 * above)})

\* C22: a remove that finds nothing returns the node it was called on: remove
\* on a leaf with a hash other than the stored one, and remove on a
\* BitmapIndexed node whose slot bit for the hash is not set, return the
\* receiver itself, no new node.
RemoveMissReturnsReceiver ==
  (lastOp.op = "remove" /\ before # Null) =>
    /\ (before.kind = "leaf" /\ ~StrictEqNum(HasherHash(lastOp.key), before.hash)) =>
         /\ LeafRemoveReturnsReceiver(before, HasherHash(lastOp.key))
         /\ map = before
    /\ (/\ before.kind = "bitmap"
        /\ ~BitmapHas(before.bitmap, BitmapBitpos(HasherHash(lastOp.key), 0))) =>
         /\ BitmapRemoveReturnsReceiver(before, HasherHash(lastOp.key), 0)
         /\ map = before

\* the shifts a node can be asked at
Shifts == {5 * level : level \in 0..6}

Pairs(array) == {array[i] : i \in 1..Len(array)}

\* C24: find and exists search by predicate and not by hash: exists(p) is
\* true iff some pair of toArray() satisfies p; the node's find(p) returns a
\* leaf of the trie that satisfies p when there is one and nothing otherwise;
\* and the answer is the same when the node's bitmap is replaced by the empty
\* bitmap, since every child is scanned whatever the bitmap says.
PredicateSearchScansAll ==
  \A predicate \in Predicates :
    LET satisfied == Pairs(MapToArray(map)) \cap predicate # {}
    IN  /\ MapExists(map, predicate) = satisfied
        /\ map # Null =>
             /\ NodeExists(map, predicate) = satisfied
             /\ (NodeFind(map, predicate) # Absent) = satisfied
             /\ satisfied =>
                  /\ NodeFind(map, predicate).kind = "leaf"
                  /\ <<NodeFind(map, predicate).key, NodeFind(map, predicate).value>>
                       \in Pairs(MapToArray(map)) \cap predicate
                  /\ NodeFind(map, predicate).value # JSUndefined =>
                       MapFind(map, predicate) = Optional(NodeFind(map, predicate).value)
             /\ ~satisfied => MapFind(map, predicate) = Optional(JSUndefined)
             /\ map.kind = "bitmap" =>
                  /\ NodeExists(BitmapIndexedNode({}, map.children), predicate) = satisfied
                  /\ NodeFind(BitmapIndexedNode({}, map.children), predicate)
                       = NodeFind(map, predicate)

\* a map of three pairs where only the last pair of toArray() has the value
\* 'b': exists finds it, find returns its leaf
PredicateSearchScansAllWitness ==
  /\ lastOp.op \in {"add", "fromArray"}
  /\ MapSize(map) = 3
  /\ MapToArray(map)[3][2] = JSString(<<98>>)
  /\ MapToArray(map)[1][2] # JSString(<<98>>)
  /\ MapToArray(map)[2][2] # JSString(<<98>>)
  /\ MapExists(map, Keys \X {JSString(<<98>>)})
  /\ NodeFind(map, Keys \X {JSString(<<98>>)}).key = MapToArray(map)[3][1]
  /\ ~MapExists(map, {})

\* hash a comes before hash b in bucket order: at the first level where their
\* 5-bit digits differ, the digit of a is the smaller
BucketBefore(a, b) ==
  \E level \in 0..6 :
    /\ \A above \in 0..(level - 1) : Digit(a, 5 * above) = Digit(b, 5 * above)
    /\ Digit(a, 5 * level) < Digit(b, 5 * level)

\* C25: enumeration follows the hash buckets and not the insertion order:
\* toArray() lists the pairs by ascending 5-bit digit of the key's hash at
\* each level, keys(), values() and foreach list in the order of toArray(),
\* and a map whose keys are all integers in 0..31 lists them ascending
\* whatever the order they were added in.
EnumerationIsBucketOrder ==
  /\ \A i \in 1..(MapSize(map) - 1) :
       BucketBefore(HasherHash(MapToArray(map)[i][1]),
                    HasherHash(MapToArray(map)[i + 1][1]))
  /\ \A i \in 1..MapSize(map) :
       /\ MapKeys(map)[i] = MapToArray(map)[i][1]
       /\ MapValues(map)[i] = MapToArray(map)[i][2]
       /\ MapForeach(map)[i] = MapToArray(map)[i]
  /\ Len(MapKeys(map)) = MapSize(map)
  /\ Len(MapValues(map)) = MapSize(map)
  /\ Len(MapForeach(map)) = MapSize(map)
  /\ (\A i \in 1..MapSize(map) : MapKeys(map)[i].num.hi = 0
                                   /\ MapKeys(map)[i].num.lo \in 0..31) =>
       \A i \in 1..(MapSize(map) - 1) :
         MapKeys(map)[i].num.lo < MapKeys(map)[i + 1].num.lo

\* 0 was added last to a map of 3 and 31 and is listed first
EnumerationIsBucketOrderWitness ==
  /\ lastOp.op = "add"
  /\ lastOp.key = JSNumber(JSInt(0))
  /\ MapSize(before) = 2
  /\ MapKeys(map) = <<JSNumber(JSInt(0)), JSNumber(JSInt(3)), JSNumber(JSInt(31))>>
  /\ MapForeach(map) = MapToArray(map)

\* C27: presence and membership agree: on every reachable map
\* get(k).isPresent() equals contains(k) for every key, also when the value
\* stored under k is undefined, and find(p) is present exactly when exists(p).
PresenceAgreesWithMembership ==
  /\ \A key \in Keys : MapGet(map, key).isPresent = MapContains(map, key)
  /\ \A predicate \in Predicates :
       MapFind(map, predicate).isPresent = MapExists(map, predicate)

\* C28: the views of a queue agree: on a non-empty queue element() and
\* peek().get() equal toArray()[0], remove().toArray() is toArray() without
\* its first element, and size() is the length of toArray() on every queue.
QueueViewsAgree ==
  /\ QueueSize(queue) = Len(QueueToArray(queue))
  /\ QueueSize(queue) > 0 =>
       /\ ~QueueElement(queue).threw
       /\ QueueElement(queue).value = QueueToArray(queue)[1]
       /\ OptionalGet(QueuePeek(queue).element).value = QueueToArray(queue)[1]
       /\ ~QueueRemove(queue).threw
       /\ QueueToArray(QueueRemove(queue).queue) = Tail(QueueToArray(queue))

\* the orders in which a set of keys can be listed
Orders(keys) ==
  {order \in [1..Cardinality(keys) -> keys] :
     \A i \in DOMAIN order, j \in DOMAIN order : i # j => order[i] # order[j]}

\* the entries of the reference map listed in an order of its keys
EntriesIn(order) == [i \in DOMAIN order |-> <<order[i], ref[order[i]]>>]

\* the map built from the empty map by one add per entry
RECURSIVE AddEach(_, _, _)
AddEach(root, entries, i) ==
  IF i > Len(entries) THEN root
  ELSE AddEach(MapAdd(root, entries[i][1], entries[i][2]).ret, entries, i + 1)

\* C29: the contents of a map do not depend on its history: when the keys
\* have pairwise distinct hashes, the map reached by any sequence of adds,
\* removes and fromArray has the same toArray() as the map built from the
\* same entries by fromArray in any order and by one add per entry in any
\* order.
HistoryIndependent ==
  HashesDistinct(used) =>
    \A order \in Orders(Present) :
      /\ MapToArray(MapFromArray(EntriesIn(order))) = MapToArray(map)
      /\ MapToArray(AddEach(Null, EntriesIn(order), 1)) = MapToArray(map)

\* a map of two pairs left by a remove from three: it lists its pairs as the
\* maps built from the two entries in either order do
HistoryIndependentWitness ==
  /\ lastOp.op = "remove"
  /\ MapSize(before) = 3
  /\ MapSize(map) = 2
  /\ HashesDistinct(used)
  /\ Cardinality(Orders(Present)) = 2
  /\ \A order \in Orders(Present) :
       MapToArray(AddEach(Null, EntriesIn(order), 1)) = MapToArray(map)

\* the set reached by one add per key, in order
RECURSIVE AddEachKey(_, _, _)
AddEachKey(root, keys, i) ==
  IF i > Len(keys) THEN root
  ELSE AddEachKey(SetAdd(root, keys[i]).ret, keys, i + 1)

\* C30: addAll(k1, ..., kn) gives the set that add(k1)...add(kn) gives: the
\* same size(), toArray() and contains for every key, although on an empty
\* set addAll seeds an empty BitmapIndexed node and add makes a leaf the root.
AddAllIsRepeatedAdd ==
  lastOp.op = "setAddAll" =>
    ObserveSet(set) = ObserveSet(AddEachKey(before, lastOp.items, 1))

\* addAll of one key on the empty set: its root is a node, the root after
\* add is a leaf, and the two sets answer alike
AddAllIsRepeatedAddWitness ==
  /\ lastOp.op = "setAddAll"
  /\ before = Null
  /\ Len(lastOp.items) = 1
  /\ set.kind = "bitmap"
  /\ AddEachKey(before, lastOp.items, 1).kind = "leaf"
  /\ SetSize(set) = 1
  /\ SetContains(set, lastOp.items[1])
  /\ ObserveSet(set) = ObserveSet(AddEachKey(before, lastOp.items, 1))

====
